---- MODULE Spec2Model ----
(***************************************************************************)
(* PsiTabs: the duplicate-detection and grouping engine.                   *)
(*                                                                         *)
(* Strings are sequences of one-character strings, so that startsWith,     *)
(* toLowerCase, concatenation and the default sort order are computed and  *)
(* not assumed.  The module holds several specifications over one set of   *)
(* variables; each specification leaves the other families unchanged.      *)
(*   SpecNorm  : DuplicateDetector.normalizeUrl / areTabsDuplicate         *)
(*   SpecDup   : DuplicateDetector.identifyDuplicateGroups and lookups     *)
(*   SpecGroup : GroupManager clustering operations on one window          *)
(*   SpecTime  : GroupManager.groupByCreationTime                          *)
(*   SpecParse : LLMService._parseGroupAnalysis                            *)
(*   SpecDupGroup : DuplicateDetector.groupDuplicates                      *)
(*   SpecSmart : GroupManager.groupTabsByTopic / groupSimilarTabs          *)
(*   SpecLlm   : LLMService operations interleaved with settings saves     *)
(*   SpecMsg, SpecMsgLive : the background message handler                 *)
(*   SpecClose : DuplicateDetector.closeDuplicates / mergeDuplicates       *)
(*   SpecPrim  : GroupManager.createGroup and the other group primitives   *)
(*   SpecStore : StorageManager.saveSettings called from two surfaces      *)
(*   SpecSaved : StorageManager.saveTabGroup / deleteTabGroup              *)
(*   SpecFrame : the clustering operations on windows with special pages   *)
(*   SpecAuto  : handleTabCreated and its deferred duplicate check         *)
(*   SpecRace  : interleaved groupTabByDomain handlers of created tabs     *)
(*   SpecSort  : TabManager.sortTabsByTitle                                *)
(***************************************************************************)
EXTENDS Integers, Sequences, FiniteSets, TLC

VARIABLES
  nIn1, nIn2,      \* SpecNorm: the two URL strings under comparison
  nOut,            \* SpecNorm: result of the last comparison, or NoResult
  dTabs,           \* SpecDup: the tab snapshot (input list of the scan)
  dOut,            \* SpecDup: result of the last operation, or NoResult
  gTabs,           \* SpecGroup: the window's tabs, in index order
  gGroups,         \* SpecGroup: the window's tab groups
  gNextGroupId,    \* SpecGroup: next group id the host hands out
  gLast,           \* SpecGroup: the last operation, the state it started from
                   \* and the groups it created
  aIn,             \* SpecParse: a completion text and the batch it answers
  aOut,            \* SpecParse: the clusters parsed from it, or NoResult
  lSettings,       \* SpecLlm: the settings held by chrome.storage.sync
  lCall,           \* SpecLlm: the LLMService operation in flight, or NoResult
  lFetch,          \* SpecLlm: the settings of the last request sent, or NoResult
  mMessages,       \* SpecMsg: the messages received, by message slot
  mPromises,       \* SpecMsg: the state of each message's asynchronous operation
  mResponses,      \* SpecMsg: the responses sent to each message's sender
  sStored,         \* SpecStore: the 'settings' item of chrome.storage.sync
  sSaves,          \* SpecStore: the saveSettings call of each surface
  sWrites,         \* SpecStore: the surfaces whose call has written, in order
  vGroups,         \* SpecSaved: the 'groups' item of chrome.storage.local
  vClock,          \* SpecSaved: the value Date.now() returns
  vLast            \* SpecSaved: the last operation, or NoResult

vars == <<nIn1, nIn2, nOut, dTabs, dOut, gTabs, gGroups, gNextGroupId, gLast, aIn, aOut,
          lSettings, lCall, lFetch, mMessages, mPromises, mResponses,
          sStored, sSaves, sWrites, vGroups, vClock, vLast>>
normVars == <<nIn1, nIn2, nOut>>
dupVars == <<dTabs, dOut>>
groupVars == <<gTabs, gGroups, gNextGroupId, gLast>>
parseVars == <<aIn, aOut>>
llmVars == <<lSettings, lCall, lFetch>>
msgVars == <<mMessages, mPromises, mResponses>>
storeVars == <<sStored, sSaves, sWrites>>
savedVars == <<vGroups, vClock, vLast>>

NoResult == [kind |-> "none"]

\* the families of variables a specification does not use stay as constructed
NormIdle == nIn1 = NoResult /\ nIn2 = NoResult /\ nOut = NoResult
DupIdle == dTabs = <<>> /\ dOut = NoResult
GroupIdle == gTabs = <<>> /\ gGroups = {} /\ gNextGroupId = 0 /\ gLast = NoResult
ParseIdle == aIn = NoResult /\ aOut = NoResult
LlmIdle == lSettings = NoResult /\ lCall = NoResult /\ lFetch = NoResult
MsgIdle == mMessages = <<>> /\ mPromises = <<>> /\ mResponses = <<>>
StoreIdle == sStored = NoResult /\ sSaves = <<>> /\ sWrites = <<>>
SavedIdle == vGroups = <<>> /\ vClock = 0 /\ vLast = NoResult

IdleBut(family) ==
  /\ IF family = "norm" THEN TRUE ELSE NormIdle
  /\ IF family = "dup" THEN TRUE ELSE DupIdle
  /\ IF family = "group" THEN TRUE ELSE GroupIdle
  /\ IF family = "parse" THEN TRUE ELSE ParseIdle
  /\ IF family = "llm" THEN TRUE ELSE LlmIdle
  /\ IF family = "msg" THEN TRUE ELSE MsgIdle
  /\ IF family = "store" THEN TRUE ELSE StoreIdle
  /\ IF family = "saved" THEN TRUE ELSE SavedIdle

UnchangedBut(family) ==
  /\ IF family = "norm" THEN TRUE ELSE UNCHANGED normVars
  /\ IF family = "dup" THEN TRUE ELSE UNCHANGED dupVars
  /\ IF family = "group" THEN TRUE ELSE UNCHANGED groupVars
  /\ IF family = "parse" THEN TRUE ELSE UNCHANGED parseVars
  /\ IF family = "llm" THEN TRUE ELSE UNCHANGED llmVars
  /\ IF family = "msg" THEN TRUE ELSE UNCHANGED msgVars
  /\ IF family = "store" THEN TRUE ELSE UNCHANGED storeVars
  /\ IF family = "saved" THEN TRUE ELSE UNCHANGED savedVars

(***************************************************************************)
(* Characters and strings                                                  *)
(***************************************************************************)
Upper == <<"A","B","C","D","E","F","G","H","I","J","K","L","M",
           "N","O","P","Q","R","S","T","U","V","W","X","Y","Z">>
Lower == <<"a","b","c","d","e","f","g","h","i","j","k","l","m",
           "n","o","p","q","r","s","t","u","v","w","x","y","z">>
Digits == <<"0","1","2","3","4","5","6","7","8","9">>

Range(s) == {s[i] : i \in DOMAIN s}
UpperSet == Range(Upper)
DigitSet == Range(Digits)
Letters == UpperSet \cup Range(Lower)

\* The characters the model uses, in UTF-16 code unit order.
CharOrder == <<" ", "#", "%", "&", "+", ",", "-", ".", "/">> \o Digits
             \o <<":", "=", "?">> \o Upper \o <<"[", "]", "_">> \o Lower

Code(c) == CHOOSE i \in DOMAIN CharOrder : CharOrder[i] = c

Take(s, n) == SubSeq(s, 1, n)
Drop(s, n) == SubSeq(s, n + 1, Len(s))

\* String.prototype.startsWith
startsWith(s, p) == Len(s) >= Len(p) /\ SubSeq(s, 1, Len(p)) = p

\* Index of the first character of s that is in cs, Len(s)+1 when there is none.
IndexOfAny(s, cs) ==
  IF \E i \in DOMAIN s : s[i] \in cs
  THEN CHOOSE i \in DOMAIN s : s[i] \in cs /\ \A k \in 1..(i - 1) : s[k] \notin cs
  ELSE Len(s) + 1

LowerChar(c) ==
  IF c \in UpperSet THEN Lower[CHOOSE i \in DOMAIN Upper : Upper[i] = c] ELSE c

\* String.prototype.toLowerCase
toLowerCase(s) == [i \in DOMAIN s |-> LowerChar(s[i])]

\* s < t in code unit order (the order Array.prototype.sort uses on strings)
RECURSIVE StrLess(_, _)
StrLess(s, t) ==
  IF t = <<>> THEN FALSE
  ELSE IF s = <<>> THEN TRUE
  ELSE IF s[1] # t[1] THEN Code(s[1]) < Code(t[1])
  ELSE StrLess(Tail(s), Tail(t))

\* Split s on the separator character c (String.prototype.split).
RECURSIVE Split(_, _)
Split(s, c) ==
  LET i == IndexOfAny(s, {c}) IN
  IF i > Len(s) THEN <<s>> ELSE <<Take(s, i - 1)>> \o Split(Drop(s, i), c)

RECURSIVE Join(_, _)
Join(parts, sep) ==
  IF parts = <<>> THEN <<>>
  ELSE IF Len(parts) = 1 THEN parts[1]
  ELSE parts[1] \o sep \o Join(Tail(parts), sep)

RECURSIVE SelectIdx(_, _, _)
\* the subsequence of s at the indices i with keep[i], in order
SelectIdx(s, keep, i) ==
  IF i > Len(s) THEN <<>>
  ELSE (IF keep[i] THEN <<s[i]>> ELSE <<>>) \o SelectIdx(s, keep, i + 1)

(***************************************************************************)
(* The platform's URL parser (new URL(url)), restricted to the inputs the  *)
(* model draws: scheme, optional authority host[:port], path, query and    *)
(* fragment; no userinfo, no IPv6 literal, no dot segments, no characters  *)
(* that the parser would percent-encode in a path.                         *)
(***************************************************************************)
SchemeChars == Letters \cup DigitSet \cup {"+", "-", "."}
ForbiddenHostChars == {" ", "[", "]", "%", "#", "?", "/", ":"}

s_http == <<"h","t","t","p">>
s_https == <<"h","t","t","p","s">>
s_ftp == <<"f","t","p">>
s_ws == <<"w","s">>
s_wss == <<"w","s","s">>
SpecialSchemes == {s_http, s_https, s_ftp, s_ws, s_wss}

p80 == <<"8","0">>
p443 == <<"4","4","3">>
p21 == <<"2","1">>

\* default port of a special scheme, as the parser knows it
DefaultPort(scheme) ==
  IF scheme \in {s_http, s_ws} THEN p80
  ELSE IF scheme \in {s_https, s_wss} THEN p443
  ELSE IF scheme = s_ftp THEN p21
  ELSE <<>>

RECURSIVE StripLeadingZeros(_)
StripLeadingZeros(ds) ==
  IF Len(ds) > 1 /\ ds[1] = "0" THEN StripLeadingZeros(Tail(ds)) ELSE ds

RECURSIVE StripLeadingSlashes(_)
StripLeadingSlashes(s) ==
  IF s # <<>> /\ s[1] = "/" THEN StripLeadingSlashes(Tail(s)) ELSE s

ParseFailure == [ok |-> FALSE]

\* host[:port] of an authority
ParseAuthority(scheme, auth, path, query) ==
  LET special == scheme \in SpecialSchemes
      c == IndexOfAny(auth, {":"})
      host == Take(auth, c - 1)
      portText == IF c > Len(auth) THEN <<>> ELSE Drop(auth, c)
      portNum == StripLeadingZeros(portText)
  IN
  IF (special /\ host = <<>>)
     \/ (\E i \in DOMAIN host : host[i] \in ForbiddenHostChars)
     \/ (\E i \in DOMAIN portText : portText[i] \notin DigitSet)
     \/ Len(portNum) > 5
  THEN ParseFailure
  ELSE [ok |-> TRUE,
        protocol |-> scheme \o <<":">>,
        hostname |-> IF special THEN toLowerCase(host) ELSE host,
        port |-> IF portNum = DefaultPort(scheme) THEN <<>> ELSE portNum,
        pathname |-> IF special /\ path = <<>> THEN <<"/">> ELSE path,
        search |-> IF query = <<>> THEN <<>> ELSE <<"?">> \o query]

ParseURL(s) ==
  LET colon == IndexOfAny(s, {":"})
      hasScheme == /\ colon <= Len(s)
                   /\ colon > 1
                   /\ s[1] \in Letters
                   /\ \A k \in 1..(colon - 1) : s[k] \in SchemeChars
  IN
  IF ~hasScheme THEN ParseFailure
  ELSE
    LET scheme == toLowerCase(Take(s, colon - 1))
        rest == Drop(s, colon)
        noFrag == Take(rest, IndexOfAny(rest, {"#"}) - 1)
        q == IndexOfAny(noFrag, {"?"})
        beforeQ == Take(noFrag, q - 1)
        query == IF q > Len(noFrag) THEN <<>> ELSE Drop(noFrag, q)
    IN
    IF scheme \in SpecialSchemes THEN
      LET a == StripLeadingSlashes(beforeQ)
          e == IndexOfAny(a, {"/"})
      IN ParseAuthority(scheme, Take(a, e - 1), Drop(a, e - 1), query)
    ELSE IF startsWith(beforeQ, <<"/", "/">>) THEN
      LET a == Drop(beforeQ, 2)
          e == IndexOfAny(a, {"/"})
      IN ParseAuthority(scheme, Take(a, e - 1), Drop(a, e - 1), query)
    ELSE [ok |-> TRUE, protocol |-> scheme \o <<":">>, hostname |-> <<>>,
          port |-> <<>>, pathname |-> beforeQ,
          search |-> IF query = <<>> THEN <<>> ELSE <<"?">> \o query]

(***************************************************************************)
(* URLSearchParams: the application/x-www-form-urlencoded parser and       *)
(* serializer, and Array.prototype.sort with no comparator.                *)
(***************************************************************************)
PlusToSpace(s) == [i \in DOMAIN s |-> IF s[i] = "+" THEN " " ELSE s[i]]

\* one "name=value" piece: split at the first "=", a missing "=" gives value ""
ParsePair(piece) ==
  LET e == IndexOfAny(piece, {"="}) IN
  <<PlusToSpace(Take(piece, e - 1)),
    IF e > Len(piece) THEN <<>> ELSE PlusToSpace(Drop(piece, e))>>

RECURSIVE ParsePieces(_)
ParsePieces(pieces) ==
  IF pieces = <<>> THEN <<>>
  ELSE (IF pieces[1] = <<>> THEN <<>> ELSE <<ParsePair(pieces[1])>>)
       \o ParsePieces(Tail(pieces))

\* new URLSearchParams(search): a leading "?" is dropped, empty pieces skipped
URLSearchParams(search) ==
  ParsePieces(Split(IF startsWith(search, <<"?">>) THEN Tail(search) ELSE search, "&"))

FormSafeChars == Letters \cup DigitSet \cup {"*", "-", ".", "_"}

FormEncodeChar(c) ==
  IF c \in FormSafeChars THEN <<c>>
  ELSE IF c = " " THEN <<"+">>
  ELSE IF c = "," THEN <<"%", "2", "C">>
  ELSE IF c = "/" THEN <<"%", "2", "F">>
  ELSE IF c = ":" THEN <<"%", "3", "A">>
  ELSE IF c = "=" THEN <<"%", "3", "D">>
  ELSE IF c = "?" THEN <<"%", "3", "F">>
  ELSE IF c = "[" THEN <<"%", "5", "B">>
  ELSE IF c = "]" THEN <<"%", "5", "D">>
  ELSE <<"%", "2", "5">>

RECURSIVE FormEncode(_)
FormEncode(s) == IF s = <<>> THEN <<>> ELSE FormEncodeChar(s[1]) \o FormEncode(Tail(s))

\* URLSearchParams.prototype.toString
ParamsToString(entries) ==
  Join([i \in DOMAIN entries |-> FormEncode(entries[i][1]) \o <<"=">> \o FormEncode(entries[i][2])],
       <<"&">>)

\* ToString of a [key, value] array: Array.prototype.join with ","
EntryToString(e) == e[1] \o <<",">> \o e[2]

\* SortCompare(x, y) > 0 of the default sort: x sorts after y
DefaultSortAfter(x, y) == StrLess(EntryToString(y), EntryToString(x))

\* position of x in the sorted sequence done: behind every element that does
\* not sort after it, so that equal elements keep their order (stable sort)
RECURSIVE InsertSorted(_, _)
InsertSorted(done, x) ==
  IF done = <<>> THEN <<x>>
  ELSE IF DefaultSortAfter(done[Len(done)], x)
       THEN InsertSorted(Take(done, Len(done) - 1), x) \o <<done[Len(done)]>>
       ELSE done \o <<x>>

RECURSIVE SortFrom(_, _)
SortFrom(done, todo) ==
  IF todo = <<>> THEN done ELSE SortFrom(InsertSorted(done, todo[1]), Tail(todo))

\* Array.from(searchParams.entries()).sort()
SortEntries(entries) == SortFrom(<<>>, entries)

(***************************************************************************)
(* DuplicateDetector: normalizeUrl and areTabsDuplicate                    *)
(***************************************************************************)
s_chromePrefix == <<"c","h","r","o","m","e",":","/","/">>
s_edgePrefix == <<"e","d","g","e",":","/","/">>
s_aboutBlank == <<"a","b","o","u","t",":","b","l","a","n","k">>
s_chromeNewtab == s_chromePrefix \o <<"n","e","w","t","a","b","/">>
s_edgeNewtab == s_edgePrefix \o <<"n","e","w","t","a","b","/">>

\* mutant: the default-port test ignores the protocol
NormalizedPort_anyDefault(urlObj) ==
  IF urlObj.port # <<>> /\ urlObj.port \notin {p80, p443}
  THEN <<":">> \o urlObj.port
  ELSE <<>>

NormalizedPort(urlObj) ==
  IF /\ urlObj.port # <<>>
     /\ ~(urlObj.protocol = s_http \o <<":">> /\ urlObj.port = p80)
     /\ ~(urlObj.protocol = s_https \o <<":">> /\ urlObj.port = p443)
  THEN <<":">> \o urlObj.port
  ELSE <<>>

NormalizedSearch(urlObj) ==
  IF urlObj.search # <<>>
  THEN <<"?">> \o ParamsToString(SortEntries(URLSearchParams(urlObj.search)))
  ELSE <<>>

\* mutant: the catch block returns an empty string instead of the input
normalizeUrl_emptyOnError(url) ==
  LET urlObj == ParseURL(url) IN
  IF ~urlObj.ok THEN <<>>
  ELSE urlObj.protocol \o <<"/", "/">> \o toLowerCase(urlObj.hostname)
       \o NormalizedPort(urlObj) \o urlObj.pathname \o NormalizedSearch(urlObj)

normalizeUrl(url) ==
  LET urlObj == ParseURL(url) IN
  IF ~urlObj.ok THEN url
  ELSE urlObj.protocol \o <<"/", "/">> \o toLowerCase(urlObj.hostname)
       \o NormalizedPort(urlObj) \o urlObj.pathname \o NormalizedSearch(urlObj)

\* mutant: the guards on missing, internal and blank URLs are missing
areTabsDuplicate_noGuards(tab1, tab2) == normalizeUrl(tab1.url) = normalizeUrl(tab2.url)

\* a tab's url is the empty string when the tab has none (both are falsy)
areTabsDuplicate(tab1, tab2) ==
  IF tab1.url = <<>> \/ tab2.url = <<>> THEN FALSE
  ELSE IF \/ startsWith(tab1.url, s_chromePrefix) \/ startsWith(tab1.url, s_edgePrefix)
          \/ startsWith(tab2.url, s_chromePrefix) \/ startsWith(tab2.url, s_edgePrefix)
       THEN FALSE
  ELSE IF \/ tab1.url = s_aboutBlank \/ tab2.url = s_aboutBlank
          \/ tab1.url = s_chromeNewtab \/ tab2.url = s_chromeNewtab
          \/ tab1.url = s_edgeNewtab \/ tab2.url = s_edgeNewtab
       THEN FALSE
  ELSE normalizeUrl(tab1.url) = normalizeUrl(tab2.url)

(***************************************************************************)
(* DuplicateDetector: identifyDuplicateGroups and findDuplicatesForTab.    *)
(* A tab is [id, url]; id NoId stands for a tab without an identifier.     *)
(***************************************************************************)
NoId == 0

\* mutant: the id test is missing
HasId_always(tab) == TRUE

\* !tab.id is false
HasId(tab) == tab.id # NoId

\* mutant: the duplicate is not recorded as assigned
MarkAssigned_forgets(assignedTabs, id) == assignedTabs

\* assignedTabs.add(id)
MarkAssigned(assignedTabs, id) == assignedTabs \cup {id}

\* mutant: unshift instead of push
PushDuplicate_front(duplicates, otherTab) == <<otherTab>> \o duplicates

\* duplicates.push(otherTab)
PushDuplicate(duplicates, otherTab) == Append(duplicates, otherTab)

\* mutant: a group is pushed for every tab that was scanned
HasDuplicates_always(duplicates) == TRUE

\* duplicates.length > 0
HasDuplicates(duplicates) == Len(duplicates) > 0

\* the inner loop over j, from position j on
RECURSIVE ScanOthers(_, _, _, _, _)
ScanOthers(tabs, tab, j, assignedTabs, duplicates) ==
  IF j > Len(tabs) THEN [assignedTabs |-> assignedTabs, duplicates |-> duplicates]
  ELSE LET otherTab == tabs[j] IN
       IF ~HasId(otherTab) \/ otherTab.id = tab.id \/ otherTab.id \in assignedTabs
       THEN ScanOthers(tabs, tab, j + 1, assignedTabs, duplicates)
       ELSE IF areTabsDuplicate(tab, otherTab)
            THEN ScanOthers(tabs, tab, j + 1, MarkAssigned(assignedTabs, otherTab.id),
                            PushDuplicate(duplicates, otherTab))
            ELSE ScanOthers(tabs, tab, j + 1, assignedTabs, duplicates)

\* the outer loop over i, from position i on
RECURSIVE ScanTabs(_, _, _, _)
ScanTabs(tabs, i, assignedTabs, duplicateGroups) ==
  IF i > Len(tabs) THEN duplicateGroups
  ELSE LET tab == tabs[i] IN
       IF ~HasId(tab) \/ tab.id \in assignedTabs
       THEN ScanTabs(tabs, i + 1, assignedTabs, duplicateGroups)
       ELSE LET inner == ScanOthers(tabs, tab, 1, assignedTabs, <<>>) IN
            IF HasDuplicates(inner.duplicates)
            THEN ScanTabs(tabs, i + 1, MarkAssigned(inner.assignedTabs, tab.id),
                          Append(duplicateGroups,
                                 [original |-> tab, duplicates |-> inner.duplicates]))
            ELSE ScanTabs(tabs, i + 1, inner.assignedTabs, duplicateGroups)

identifyDuplicateGroups(tabs) == ScanTabs(tabs, 1, {}, <<>>)

\* tabs.map(tab => tab.id)
Ids(tabSeq) == [i \in DOMAIN tabSeq |-> tabSeq[i].id]

\* chrome.tabs.get(tabId) on a snapshot: the tab with that id
GetTab(tabs, tabId) == tabs[CHOOSE i \in DOMAIN tabs : tabs[i].id = tabId]

\* mutant: the target tab is not filtered out
findDuplicatesForTab_withSelf(tabs, tabId) ==
  LET tab == GetTab(tabs, tabId)
  IN SelectIdx(tabs, [i \in DOMAIN tabs |-> areTabsDuplicate(tab, tabs[i])], 1)

\* DuplicateDetector.findDuplicatesForTab(tabId) on a snapshot
findDuplicatesForTab(tabs, tabId) ==
  LET tab == GetTab(tabs, tabId)
      otherTabs == SelectIdx(tabs, [i \in DOMAIN tabs |-> tabs[i].id # tabId], 1)
  IN SelectIdx(otherTabs, [i \in DOMAIN otherTabs |-> areTabsDuplicate(tab, otherTabs[i])], 1)

(***************************************************************************)
(* The host's tabs and tab groups of one window, and GroupManager.         *)
(* A tab is [id, url, groupId], a group is [id, title, color].  A host     *)
(* state h is [tabs, groups, nextId, created, error]: created logs the     *)
(* groups made by createGroup during the operation, error is set when the  *)
(* operation throws, calls counts the calls of chrome.tabs.group,          *)
(* chrome.tabs.ungroup and chrome.tabGroups.update.  The host keeps the order of the tabs of the model    *)
(* (the move of grouped tabs next to each other is not modelled).          *)
(***************************************************************************)
NoGroup == -1

\* the colors array of getRandomColor
Palette == <<"red", "blue", "yellow", "green", "pink", "purple", "cyan", "orange", "grey">>

\* the values Math.floor(Math.random() * colors.length) can select
getRandomColor == {Palette[i] : i \in 1..Len(Palette)}

HostState(tabs, groups, nextId) ==
  [tabs |-> tabs, groups |-> groups, nextId |-> nextId, created |-> <<>>, error |-> FALSE,
   calls |-> 0]

Throw(h) == [h EXCEPT !.error = TRUE]

\* groups that still have a tab (the host removes a group when it is emptied)
LiveGroups(tabs, groups) == {g \in groups : \E i \in DOMAIN tabs : tabs[i].groupId = g.id}

SetGroupOf(tabs, tabIds, groupId) ==
  [i \in DOMAIN tabs |->
     IF tabs[i].id \in Range(tabIds) THEN [tabs[i] EXCEPT !.groupId = groupId] ELSE tabs[i]]

\* chrome.tabs.group({ tabIds }): a new group, untitled, holding these tabs
TabsGroupNew(h, tabIds) ==
  LET tabs2 == SetGroupOf(h.tabs, tabIds, h.nextId) IN
  [h EXCEPT !.tabs = tabs2,
            !.groups = LiveGroups(tabs2, h.groups)
                       \cup {[id |-> h.nextId, title |-> <<>>, color |-> "grey"]},
            !.nextId = h.nextId + 1,
            !.calls = h.calls + 1]

\* chrome.tabs.group({ tabIds, groupId }): the tabs join an existing group
TabsGroupInto(h, tabIds, groupId) ==
  LET tabs2 == SetGroupOf(h.tabs, tabIds, groupId) IN
  [h EXCEPT !.tabs = tabs2, !.groups = LiveGroups(tabs2, h.groups), !.calls = h.calls + 1]

\* chrome.tabs.ungroup(tabIds): the tabs leave their groups
TabsUngroup(h, tabIds) ==
  LET tabs2 == SetGroupOf(h.tabs, tabIds, NoGroup) IN
  [h EXCEPT !.tabs = tabs2, !.groups = LiveGroups(tabs2, h.groups), !.calls = h.calls + 1]

\* chrome.tabGroups.update(groupId, { title, color }); an empty title is not sent
TabGroupsUpdate(h, groupId, title, color) ==
  [h EXCEPT !.groups =
     {IF g.id = groupId
      THEN [g EXCEPT !.title = IF title # <<>> THEN title ELSE g.title, !.color = color]
      ELSE g : g \in h.groups},
            !.calls = h.calls + 1]

\* mutant: the test of the tab list is missing
createGroup_unguarded(h, tabIds, title, color) ==
  LET grouped == TabsGroupNew(h, tabIds)
      updated == TabGroupsUpdate(grouped, h.nextId, title, color)
  IN [updated EXCEPT !.created =
        Append(h.created, [groupId |-> h.nextId, tabIds |-> tabIds,
                           title |-> title, color |-> color])]

\* GroupManager.createGroup(tabIds, { title, color })
createGroup(h, tabIds, title, color) ==
  IF tabIds = <<>> THEN Throw(h)
  ELSE LET grouped == TabsGroupNew(h, tabIds)
           updated == TabGroupsUpdate(grouped, h.nextId, title, color)
       IN [updated EXCEPT !.created =
             Append(h.created, [groupId |-> h.nextId, tabIds |-> tabIds,
                                title |-> title, color |-> color])]

\* GroupManager.addTabsToGroup(groupId, tabIds)
addTabsToGroup(h, groupId, tabIds) ==
  IF tabIds = <<>> THEN Throw(h) ELSE TabsGroupInto(h, tabIds, groupId)

\* GroupManager.ungroupTabs(tabIds)
ungroupTabs(h, tabIds) ==
  IF tabIds = <<>> THEN Throw(h) ELSE TabsUngroup(h, tabIds)

\* GroupManager.updateGroup(groupId, properties): properties is a function
\* from the keys given ("title", "color") to their values; the host rejects
\* the update of a group that does not exist
updateGroup(h, groupId, properties) ==
  IF Cardinality(DOMAIN properties) = 0 THEN Throw(h)
  ELSE IF \A g \in h.groups : g.id # groupId THEN Throw([h EXCEPT !.calls = h.calls + 1])
  ELSE [h EXCEPT !.groups =
          {IF g.id = groupId
           THEN [g EXCEPT !.title = IF "title" \in DOMAIN properties
                                    THEN properties["title"] ELSE g.title,
                          !.color = IF "color" \in DOMAIN properties
                                    THEN properties["color"] ELSE g.color]
           ELSE g : g \in h.groups},
                 !.calls = h.calls + 1]

s_wwwDot == <<"w", "w", "w", ".">>

\* new URL(url).hostname with a leading "www." removed; ok is false when
\* new URL throws
ExtractDomain(url) ==
  LET urlObj == ParseURL(url) IN
  IF ~urlObj.ok THEN [ok |-> FALSE]
  ELSE [ok |-> TRUE,
        domain |-> IF startsWith(urlObj.hostname, s_wwwDot)
                   THEN Drop(urlObj.hostname, 4) ELSE urlObj.hostname]

\* mutant: the test skips special pages only
SkippedForGrouping_specialOnly(tab) ==
  \/ tab.url = <<>>
  \/ startsWith(tab.url, s_chromePrefix)
  \/ startsWith(tab.url, s_edgePrefix)
  \/ tab.url = s_aboutBlank

\* the test that skips a tab: already in a group, or a special page
SkippedForGrouping(tab) ==
  \/ tab.groupId # NoGroup
  \/ tab.url = <<>>
  \/ startsWith(tab.url, s_chromePrefix)
  \/ startsWith(tab.url, s_edgePrefix)
  \/ tab.url = s_aboutBlank

\* property names every object literal {} inherits and a lower-case hostname
\* can spell; domainGroups[name] is then a function, not undefined
s_constructor == <<"c","o","n","s","t","r","u","c","t","o","r">>
InheritedKeys == {s_constructor}

\* domainGroups after "if (!domainGroups[domain]) domainGroups[domain] = [];
\* domainGroups[domain].push(tab.id)"; the push on an inherited member throws
\* inside the try block and the tab is skipped.  Buckets keep insertion order.
AddToDomainGroups(domainGroups, domain, id) ==
  IF domain \in InheritedKeys THEN domainGroups
  ELSE IF \E k \in DOMAIN domainGroups : domainGroups[k].domain = domain
  THEN [k \in DOMAIN domainGroups |->
          IF domainGroups[k].domain = domain
          THEN [domainGroups[k] EXCEPT !.tabIds = Append(@, id)]
          ELSE domainGroups[k]]
  ELSE Append(domainGroups, [domain |-> domain, tabIds |-> <<id>>])

\* the first loop of groupTabsByDomain, from position i on
RECURSIVE BucketByDomain(_, _, _)
BucketByDomain(tabs, i, domainGroups) ==
  IF i > Len(tabs) THEN domainGroups
  ELSE LET tab == tabs[i]
           d == ExtractDomain(tab.url)
       IN IF SkippedForGrouping(tab) \/ ~d.ok
          THEN BucketByDomain(tabs, i + 1, domainGroups)
          ELSE BucketByDomain(tabs, i + 1, AddToDomainGroups(domainGroups, d.domain, tab.id))

\* groupTabIds.length > 1
IsDomainCluster(groupTabIds) == Len(groupTabIds) > 1

\* the second loop of groupTabsByDomain, from bucket k on; colors holds the
\* color getRandomColor returns for each group created
RECURSIVE CreateDomainGroups(_, _, _, _)
CreateDomainGroups(h, domainGroups, k, colors) ==
  IF k > Len(domainGroups) THEN h
  ELSE IF IsDomainCluster(domainGroups[k].tabIds)
  THEN CreateDomainGroups(
         createGroup(h, domainGroups[k].tabIds, domainGroups[k].domain,
                     colors[Len(h.created) + 1]),
         domainGroups, k + 1, colors)
  ELSE CreateDomainGroups(h, domainGroups, k + 1, colors)

NumDomainClusters(domainGroups) ==
  Cardinality({k \in DOMAIN domainGroups : IsDomainCluster(domainGroups[k].tabIds)})

\* chrome.tabs.get(id) for each id of tabIds
TabsOf(tabs, tabIds) == [i \in DOMAIN tabIds |-> GetTab(tabs, tabIds[i])]

\* GroupManager.groupTabsByDomain(tabIds)
groupTabsByDomain(h, tabIds, colors) ==
  CreateDomainGroups(h, BucketByDomain(TabsOf(h.tabs, tabIds), 1, <<>>), 1, colors)

UngroupedTabs(tabs) == SelectIdx(tabs, [i \in DOMAIN tabs |-> tabs[i].groupId = NoGroup], 1)

\* the other ungrouped tabs of the window on the same domain
SameDomainTabs(tabs, tabId, domain) ==
  SelectIdx(tabs,
            [i \in DOMAIN tabs |->
               /\ tabs[i].url # <<>>
               /\ tabs[i].id # tabId
               /\ tabs[i].groupId = NoGroup
               /\ LET d == ExtractDomain(tabs[i].url) IN d.ok /\ d.domain = domain],
            1)

\* GroupManager.groupTabByDomain(tabId); existing is the group the loop over
\* the window's groups finds first with the domain as title
groupTabByDomain(h, tabId, existing, color) ==
  LET tab == GetTab(h.tabs, tabId)
      d == ExtractDomain(tab.url)
  IN IF SkippedForGrouping(tab) THEN h
     ELSE IF ~d.ok THEN Throw(h)
     ELSE IF existing # NoGroup THEN addTabsToGroup(h, existing, <<tabId>>)
     ELSE LET sameDomainTabs == SameDomainTabs(h.tabs, tabId, d.domain) IN
          IF Len(sameDomainTabs) > 0
          THEN createGroup(h, <<tabId>> \o Ids(sameDomainTabs), d.domain, color)
          ELSE h

\* the groups of the window titled with the tab's domain
GroupsTitledAs(h, tabId) ==
  LET d == ExtractDomain(GetTab(h.tabs, tabId).url) IN
  IF d.ok THEN {g.id : g \in {x \in h.groups : x.title = d.domain}} ELSE {}

\* new RegExp(pattern) for patterns of literal characters and ".": an
\* unclosed "[" is a syntax error
RegExpValid(pattern) == "[" \notin Range(pattern)

\* regex.test(text): the pattern matches at some offset
RegExpTest(pattern, text) ==
  \E off \in 0..(Len(text) - Len(pattern)) :
    \A i \in DOMAIN pattern : pattern[i] = "." \/ pattern[i] = text[off + i]

\* GroupManager.groupByUrlPattern(pattern, groupTitle)
groupByUrlPattern(h, pattern, groupTitle, color) ==
  IF ~RegExpValid(pattern) THEN Throw(h)
  ELSE LET eligibleTabs ==
             SelectIdx(h.tabs, [i \in DOMAIN h.tabs |-> ~SkippedForGrouping(h.tabs[i])], 1)
           matchingTabIds ==
             Ids(SelectIdx(eligibleTabs,
                           [i \in DOMAIN eligibleTabs |-> RegExpTest(pattern, eligibleTabs[i].url)],
                           1))
       IN IF Len(matchingTabIds) > 0
          THEN createGroup(h, matchingTabIds, groupTitle, color)
          ELSE h

\* eligibleTabs.sort((a, b) => (a.id || 0) - (b.id || 0)): tab goes after
\* every tab whose id is not greater (the sort is stable)
RECURSIVE InsertById(_, _)
InsertById(sorted, tab) ==
  IF sorted = <<>> THEN <<tab>>
  ELSE IF tab.id - Head(sorted).id < 0 THEN <<tab>> \o sorted
  ELSE <<Head(sorted)>> \o InsertById(Tail(sorted), tab)

RECURSIVE SortById(_, _, _)
SortById(tabs, i, sorted) ==
  IF i > Len(tabs) THEN sorted ELSE SortById(tabs, i + 1, InsertById(sorted, tabs[i]))

\* approxTimeDiff <= timeWindowInMinutes * 60 with approxTimeDiff = idDiff * 0.1;
\* the window is the fraction num/den of a minute and both sides are
\* multiplied by 10 * den, which keeps the comparison in the integers (for
\* the windows of TimeWindows and id gaps up to 6000 the double arithmetic
\* of the program gives the same answers)
WithinTimeWindow_strict(idDiff, timeWindowInMinutes) ==
  idDiff * timeWindowInMinutes.den < timeWindowInMinutes.num * 60 * 10

WithinTimeWindow(idDiff, timeWindowInMinutes) ==
  idDiff * timeWindowInMinutes.den <= timeWindowInMinutes.num * 60 * 10

\* the loop that cuts the sorted tabs into timeGroups, from position i on
RECURSIVE CutTimeGroups(_, _, _, _, _)
CutTimeGroups(eligibleTabs, i, currentGroup, timeGroups, timeWindowInMinutes) ==
  IF i > Len(eligibleTabs)
  THEN IF Len(currentGroup) > 1 THEN Append(timeGroups, currentGroup) ELSE timeGroups
  ELSE LET tab == eligibleTabs[i]
           prevTab == currentGroup[Len(currentGroup)]
           idDiff == tab.id - prevTab.id
       IN IF WithinTimeWindow(idDiff, timeWindowInMinutes)
          THEN CutTimeGroups(eligibleTabs, i + 1, Append(currentGroup, tab), timeGroups,
                             timeWindowInMinutes)
          ELSE CutTimeGroups(eligibleTabs, i + 1, <<tab>>,
                             IF Len(currentGroup) > 1 THEN Append(timeGroups, currentGroup)
                                                      ELSE timeGroups,
                             timeWindowInMinutes)

\* timeGroups of the window for the given time window
TimeGroupsOf(tabs, timeWindowInMinutes) ==
  LET eligibleTabs == UngroupedTabs(tabs) IN
  IF Len(eligibleTabs) <= 1 THEN <<>>
  ELSE LET sorted == SortById(eligibleTabs, 1, <<>>) IN
       CutTimeGroups(sorted, 2, <<sorted[1]>>, <<>>, timeWindowInMinutes)

\* groupTabs.map(tab => tab.id).filter(id => id !== undefined)
DefinedIds(groupTabs) ==
  Ids(SelectIdx(groupTabs, [i \in DOMAIN groupTabs |-> HasId(groupTabs[i])], 1))

\* `Group ${i + 1} (${timestamp})`; k is i + 1
TimeGroupTitle(k, timestamp) ==
  <<"G", "r", "o", "u", "p", " ", Digits[k + 1], " ", "(">> \o timestamp \o <<")">>

\* the loop that creates the groups, from timeGroups[k] on; stamps and colors
\* hold what new Date().toLocaleTimeString and getRandomColor return for each
\* group created
RECURSIVE CreateTimeGroups(_, _, _, _, _)
CreateTimeGroups(h, timeGroups, k, stamps, colors) ==
  IF k > Len(timeGroups) THEN h
  ELSE LET tabIds == DefinedIds(timeGroups[k]) IN
       IF Len(tabIds) <= 1 THEN CreateTimeGroups(h, timeGroups, k + 1, stamps, colors)
       ELSE CreateTimeGroups(
              createGroup(h, tabIds, TimeGroupTitle(k, stamps[Len(h.created) + 1]),
                          colors[Len(h.created) + 1]),
              timeGroups, k + 1, stamps, colors)

\* the number of timeGroups that become groups
NumTimeClusters(timeGroups) ==
  Cardinality({k \in DOMAIN timeGroups : Len(DefinedIds(timeGroups[k])) > 1})

\* GroupManager.groupByCreationTime(timeWindowInMinutes)
groupByCreationTime(h, timeWindowInMinutes, stamps, colors) ==
  CreateTimeGroups(h, TimeGroupsOf(h.tabs, timeWindowInMinutes), 1, stamps, colors)

\* color: 'red' of groupDuplicates (and a color of the palette instead)
DuplicateGroupColor_blue == "blue"

DuplicateGroupColor == "red"

\* the loop of DuplicateDetector.groupDuplicates, from duplicateGroups[k] on;
\* new URL(group.original.url) throws on a malformed URL and ends the loop
RECURSIVE GroupDuplicatesFrom(_, _, _)
GroupDuplicatesFrom(h, duplicateGroups, k) ==
  IF k > Len(duplicateGroups) THEN h
  ELSE LET group == duplicateGroups[k]
           tabIds == <<group.original.id>> \o DefinedIds(group.duplicates)
           d == ExtractDomain(group.original.url)
       IN IF Len(group.duplicates) = 0 \/ ~HasId(group.original) \/ Len(tabIds) <= 1
          THEN GroupDuplicatesFrom(h, duplicateGroups, k + 1)
          ELSE IF ~d.ok THEN Throw(h)
          ELSE LET grouped == TabsGroupNew(h, tabIds)
                   updated == TabGroupsUpdate(grouped, h.nextId, d.domain, DuplicateGroupColor)
               IN GroupDuplicatesFrom(
                    [updated EXCEPT !.created =
                       Append(h.created, [groupId |-> h.nextId, tabIds |-> tabIds,
                                          title |-> d.domain, color |-> DuplicateGroupColor])],
                    duplicateGroups, k + 1)

\* DuplicateDetector.groupDuplicates(duplicateGroups)
groupDuplicates(h, duplicateGroups) == GroupDuplicatesFrom(h, duplicateGroups, 1)

(***************************************************************************)
(* LLMService._parseGroupAnalysis: the completion text is scanned as the   *)
(* regular expressions of the method scan it.                              *)
(***************************************************************************)
WhiteSpace == {" ", "\n", "\t"}
NewLine == {"\n"}

\* the index after the longest run of characters of cs that starts at i
RunEnd(s, i, cs) ==
  CHOOSE j \in i..(Len(s) + 1) :
    /\ j = Len(s) + 1 \/ s[j] \notin cs
    /\ \A k \in i..(j - 1) : s[k] \in cs

\* the index of the next character of cs at or after i, Len(s)+1 if none
NextOf(s, i, cs) ==
  CHOOSE j \in i..(Len(s) + 1) :
    /\ j = Len(s) + 1 \/ s[j] \in cs
    /\ \A k \in i..(j - 1) : s[k] \notin cs

\* String.prototype.trim
Trim(s) ==
  LET a == RunEnd(s, 1, WhiteSpace) IN
  IF a > Len(s) THEN <<>>
  ELSE SubSeq(s, a, CHOOSE b \in a..Len(s) :
                      s[b] \notin WhiteSpace /\ \A k \in (b + 1)..Len(s) : s[k] \in WhiteSpace)

\* p occurs in s at index i
HasAt(s, i, p) == i + Len(p) - 1 <= Len(s) /\ SubSeq(s, i, i + Len(p) - 1) = p

s_GroupSp == <<"G", "r", "o", "u", "p", " ">>
s_SpName == <<" ", "N", "a", "m", "e", ":">>
s_SpGroup == <<" ", "G", "r", "o", "u", "p", ":">>
s_TabIDs == <<"T", "a", "b", " ", "I", "D", "s", ":">>
s_Tabs == <<"T", "a", "b", "s", ":">>
s_Tab == <<"T", "a", "b", ":">>
s_TabSp == <<"T", "a", "b", " ">>

\* the length of the match of /Group \d+ Name:|^[A-Za-z]+ Group:/m at index
\* i of text, 0 when there is none
MatchGroupHeader(text, i) ==
  LET d == RunEnd(text, i + Len(s_GroupSp), DigitSet)
      l == RunEnd(text, i, Letters)
  IN IF HasAt(text, i, s_GroupSp) /\ d > i + Len(s_GroupSp) /\ HasAt(text, d, s_SpName)
     THEN d + Len(s_SpName) - i
     ELSE IF (i = 1 \/ text[i - 1] = "\n") /\ l > i /\ HasAt(text, l, s_SpGroup)
     THEN l + Len(s_SpGroup) - i
     ELSE 0

\* analysisText.split(/Group \d+ Name:|^[A-Za-z]+ Group:/m), scanning from
\* index i with the current piece starting at from
RECURSIVE SplitOnHeaders(_, _, _)
SplitOnHeaders(text, i, from) ==
  IF i > Len(text) THEN <<SubSeq(text, from, Len(text))>>
  ELSE LET n == MatchGroupHeader(text, i) IN
       IF n > 0
       THEN <<SubSeq(text, from, i - 1)>> \o SplitOnHeaders(text, i + n, i + n)
       ELSE SplitOnHeaders(text, i + 1, from)

\* text.match(/<label>([^\n]+)/) for the labels given (at most one of them
\* occurs at an index): the captured text of the leftmost match
CaptureAfter(text, labels) ==
  LET At(i) == \E p \in labels : /\ HasAt(text, i, p)
                                 /\ i + Len(p) <= Len(text)
                                 /\ text[i + Len(p)] # "\n"
  IN IF \E i \in DOMAIN text : At(i)
     THEN LET i == CHOOSE i \in DOMAIN text : At(i) /\ \A k \in 1..(i - 1) : ~At(k)
              p == CHOOSE p \in labels : HasAt(text, i, p)
          IN [found |-> TRUE,
              text |-> SubSeq(text, i + Len(p), NextOf(text, i + Len(p), NewLine) - 1)]
     ELSE [found |-> FALSE]

DigitValue(c) == (CHOOSE i \in DOMAIN Digits : Digits[i] = c) - 1

\* the number a run of decimal digits writes
RECURSIVE DigitsToNumber(_)
DigitsToNumber(ds) ==
  IF ds = <<>> THEN 0
  ELSE 10 * DigitsToNumber(SubSeq(ds, 1, Len(ds) - 1)) + DigitValue(ds[Len(ds)])

\* parseInt(str, 10): leading white space, a sign, then the digits up to the
\* first other character; NaN when there is no digit
parseInt(str) ==
  LET a == RunEnd(str, 1, WhiteSpace)
      signed == a <= Len(str) /\ str[a] \in {"-", "+"}
      b == IF signed THEN a + 1 ELSE a
      e == RunEnd(str, b, DigitSet)
  IN IF e = b THEN [nan |-> TRUE]
     ELSE [nan |-> FALSE,
           value |-> IF signed /\ str[a] = "-" THEN 0 - DigitsToNumber(SubSeq(str, b, e - 1))
                                               ELSE DigitsToNumber(SubSeq(str, b, e - 1))]

\* /Tab \d+/.test(str)
HasTabOrdinal(str) ==
  \E i \in DOMAIN str :
    HasAt(str, i, s_TabSp) /\ i + Len(s_TabSp) <= Len(str) /\ str[i + Len(s_TabSp)] \in DigitSet

\* str.match(/Tab (\d+)/g).map(t => parseInt(t.replace('Tab ', ''), 10) - 1),
\* scanning from index i
RECURSIVE TabOrdinals(_, _)
TabOrdinals(str, i) ==
  IF i > Len(str) THEN <<>>
  ELSE IF HasAt(str, i, s_TabSp) /\ i + Len(s_TabSp) <= Len(str)
          /\ str[i + Len(s_TabSp)] \in DigitSet
  THEN LET e == RunEnd(str, i + Len(s_TabSp), DigitSet) IN
       <<parseInt(SubSeq(str, i + Len(s_TabSp), e - 1)).value - 1>> \o TabOrdinals(str, e)
  ELSE TabOrdinals(str, i + 1)

\* str.split(/[,\s]+/), scanning from index i with the piece starting at from
RECURSIVE SplitOnSeparators(_, _, _)
SplitOnSeparators(str, i, from) ==
  IF i > Len(str) THEN <<SubSeq(str, from, Len(str))>>
  ELSE IF str[i] \in WhiteSpace \cup {","}
  THEN LET e == RunEnd(str, i, WhiteSpace \cup {","}) IN
       <<SubSeq(str, from, i - 1)>> \o SplitOnSeparators(str, e, e)
  ELSE SplitOnSeparators(str, i + 1, from)

\* the ids a "Tab IDs:" text lists: "Tab N" ordinals of the batch, or literal
\* ids that are in the batch
GroupTabIdsOf(tabIdText, tabBatch) ==
  IF HasTabOrdinal(tabIdText)
  THEN LET tabNumbers == TabOrdinals(tabIdText, 1) IN
       Ids(SelectIdx([k \in DOMAIN tabNumbers |->
                        IF tabNumbers[k] >= 0 /\ tabNumbers[k] < Len(tabBatch)
                        THEN tabBatch[tabNumbers[k] + 1] ELSE [id |-> -1]],
                     [k \in DOMAIN tabNumbers |->
                        tabNumbers[k] >= 0 /\ tabNumbers[k] < Len(tabBatch)],
                     1))
  ELSE LET pieces == SplitOnSeparators(tabIdText, 1, 1)
           parsed == [k \in DOMAIN pieces |-> parseInt(pieces[k])]
           kept == SelectIdx(parsed,
                             [j \in DOMAIN parsed |->
                                ~parsed[j].nan /\ parsed[j].value \in Range(Ids(tabBatch))],
                             1)
       IN [k \in DOMAIN kept |-> kept[k].value]

\* groupTabIds.length >= 2
IsValidGroup(groupTabIds) == Len(groupTabIds) >= 2

\* the loop over groupLines[i], i >= 1 (index k is i + 1)
RECURSIVE ParseGroupLines(_, _, _, _)
ParseGroupLines(groupLines, k, tabBatch, groups) ==
  IF k > Len(groupLines) THEN groups
  ELSE LET groupText == Trim(groupLines[k])
           groupName == Trim(SubSeq(groupText, 1, NextOf(groupText, 1, NewLine) - 1))
           first == CaptureAfter(groupText, {s_TabIDs})
           tabIdMatch == IF first.found THEN first ELSE CaptureAfter(groupText, {s_Tabs, s_Tab})
       IN IF groupText = <<>> \/ ~tabIdMatch.found
          THEN ParseGroupLines(groupLines, k + 1, tabBatch, groups)
          ELSE LET groupTabIds == GroupTabIdsOf(Trim(tabIdMatch.text), tabBatch) IN
               ParseGroupLines(groupLines, k + 1, tabBatch,
                               IF IsValidGroup(groupTabIds)
                               THEN Append(groups, [name |-> groupName, tabIds |-> groupTabIds])
                               ELSE groups)

\* LLMService._parseGroupAnalysis(analysisText, tabBatch)
parseGroupAnalysis(analysisText, tabBatch) ==
  ParseGroupLines(SplitOnHeaders(analysisText, 1, 1), 2, tabBatch, <<>>)

(***************************************************************************)
(* LLMService.suggestTabGroups / findSimilarTabs and the GroupManager      *)
(* operations built on them.  What the platform and the LLM do is given    *)
(* to the operators: whether the settings are complete (configured), the   *)
(* tabs whose content extraction fails (contentFails) and the outcome of   *)
(* each LLM call ([ok, text]).  A prompt is kept as the tabs it lists and  *)
(* whether each is listed with a content preview.  An outcome is           *)
(* [error, value, prompts]: whether the method threw, what it returned,    *)
(* and the prompts it sent to the LLM.                                     *)
(***************************************************************************)
MAX_TABS_PER_BATCH == 10

\* tabDetails: id, and whether content was extracted (title and url are
\* always there)
TabDetailsOf(tabs, tabIds, contentFails) ==
  [i \in DOMAIN tabIds |->
     [id |-> GetTab(tabs, tabIds[i]).id, content |-> tabIds[i] \notin contentFails]]

\* tabBatches: slices of MAX_TABS_PER_BATCH tab details
TabBatchesOf(tabDetails) ==
  [b \in 1..((Len(tabDetails) + MAX_TABS_PER_BATCH - 1) \div MAX_TABS_PER_BATCH) |->
     SubSeq(tabDetails, (b - 1) * MAX_TABS_PER_BATCH + 1,
            IF b * MAX_TABS_PER_BATCH < Len(tabDetails) THEN b * MAX_TABS_PER_BATCH
                                                         ELSE Len(tabDetails))]

\* the loop over tabBatches, from batch b on: a failed call is logged and
\* the batch is skipped
RECURSIVE AnalyzeBatches(_, _, _, _)
AnalyzeBatches(tabBatches, b, replies, outcome) ==
  IF b > Len(tabBatches) THEN outcome
  ELSE LET sent == [outcome EXCEPT !.prompts = Append(@, [tabs |-> tabBatches[b]])] IN
       AnalyzeBatches(tabBatches, b + 1, replies,
                      IF replies[b].ok
                      THEN [sent EXCEPT !.value =
                                          @ \o parseGroupAnalysis(replies[b].text, tabBatches[b])]
                      ELSE sent)

\* LLMService.suggestTabGroups(tabIds)
suggestTabGroups(tabs, tabIds, configured, contentFails, replies) ==
  LET tabDetails == TabDetailsOf(tabs, tabIds, contentFails) IN
  IF ~configured \/ Len(tabDetails) = 0
  THEN [error |-> TRUE, value |-> <<>>, prompts |-> <<>>]
  ELSE AnalyzeBatches(TabBatchesOf(tabDetails), 1, replies,
                      [error |-> FALSE, value |-> <<>>, prompts |-> <<>>])

\* the loop of groupTabsByTopic over the suggested groups, from tabGroups[k] on
RECURSIVE CreateTopicGroups(_, _, _, _)
CreateTopicGroups(h, tabGroups, k, colors) ==
  IF k > Len(tabGroups) THEN h
  ELSE IF Len(tabGroups[k].tabIds) > 1
  THEN CreateTopicGroups(
         createGroup(h, tabGroups[k].tabIds, tabGroups[k].name, colors[Len(h.created) + 1]),
         tabGroups, k + 1, colors)
  ELSE CreateTopicGroups(h, tabGroups, k + 1, colors)

\* GroupManager.groupTabsByTopic(tabIds), given the outcome of suggestTabGroups
groupTabsByTopic(h, suggested, colors) ==
  IF suggested.error THEN Throw(h) ELSE CreateTopicGroups(h, suggested.value, 1, colors)

\* String.prototype.includes
Includes(s, p) == \E i \in 1..(Len(s) + 1) : HasAt(s, i, p)

s_none == <<"n", "o", "n", "e">>

\* response.match(/\d+/g).map(idStr => parseInt(idStr, 10)), from index i on
RECURSIVE NumbersIn(_, _)
NumbersIn(response, i) ==
  IF i > Len(response) THEN <<>>
  ELSE IF response[i] \in DigitSet
  THEN LET e == RunEnd(response, i, DigitSet) IN
       <<parseInt(SubSeq(response, i, e - 1)).value>> \o NumbersIn(response, e)
  ELSE NumbersIn(response, i + 1)

\* the tabs findSimilarTabs offers to the LLM: the other tabs of the window
\* that are ungrouped and not special pages
EligibleTabs(tabs, tabId) ==
  SelectIdx(tabs, [i \in DOMAIN tabs |-> tabs[i].id # tabId /\ ~SkippedForGrouping(tabs[i])], 1)

\* the ids of a response that are ids of eligible tabs (and all the numbers
\* of the response instead)
SimilarTabIdsIn_unfiltered(response, eligibleTabs) == NumbersIn(response, 1)

SimilarTabIdsIn(response, eligibleTabs) ==
  LET numbers == NumbersIn(response, 1) IN
  SelectIdx(numbers,
            [k \in DOMAIN numbers |->
               \E i \in DOMAIN eligibleTabs :
                 HasId(eligibleTabs[i]) /\ eligibleTabs[i].id = numbers[k]],
            1)

\* LLMService.findSimilarTabs(tabId): every error is caught and [] returned
findSimilarTabs(tabs, tabId, configured, contentFails, reply) ==
  LET eligibleTabs == EligibleTabs(tabs, tabId)
      nothing == [error |-> FALSE, value |-> <<>>, prompts |-> <<>>]
      prompt == [reference |-> [id |-> tabId, content |-> TRUE], tabs |-> Ids(eligibleTabs)]
  IN IF ~configured \/ Len(eligibleTabs) = 0 \/ tabId \in contentFails THEN nothing
     ELSE IF ~reply.ok \/ Includes(toLowerCase(reply.text), s_none)
     THEN [nothing EXCEPT !.prompts = <<prompt>>]
     ELSE [error |-> FALSE, value |-> SimilarTabIdsIn(reply.text, eligibleTabs),
           prompts |-> <<prompt>>]

\* the test of groupSimilarTabs for a special page
IsSpecialPage(tab) ==
  \/ tab.url = <<>>
  \/ startsWith(tab.url, s_chromePrefix)
  \/ startsWith(tab.url, s_edgePrefix)
  \/ tab.url = s_aboutBlank

\* GroupManager.groupSimilarTabs(referenceTabId), given the outcome of
\* findSimilarTabs
groupSimilarTabs(h, referenceTabId, similar, color) ==
  LET tab == GetTab(h.tabs, referenceTabId)
      similarTabIds == IF referenceTabId \in Range(similar.value) THEN similar.value
                       ELSE <<referenceTabId>> \o similar.value
      d == ExtractDomain(tab.url)
  IN IF IsSpecialPage(tab) THEN h
     ELSE IF Len(similarTabIds) > 1
     THEN IF ~d.ok THEN Throw(h) ELSE createGroup(h, similarTabIds, d.domain, color)
     ELSE h

(***************************************************************************)
(* LLMService: the configuration test and the provider calls               *)
(***************************************************************************)
\* JavaScript truthiness of a string setting
Truthy(str) == str # ""

\* LLMService.isConfigured, for the settings read from storage
isConfigured(settings) ==
  CASE settings.llmProvider = "azure" ->
         Truthy(settings.llmApiKey) /\ Truthy(settings.llmEndpoint)
    [] settings.llmProvider = "openai" -> Truthy(settings.llmApiKey)
    [] settings.llmProvider = "anthropic" -> Truthy(settings.llmApiKey)
    [] settings.llmProvider = "custom" ->
         Truthy(settings.llmApiKey) /\ Truthy(settings.llmEndpoint)
    [] OTHER -> FALSE

\* a provider call either throws before the request or sends the request
\* with the settings it was given
Refused == [threw |-> TRUE, fetch |-> NoResult]
Fetch(settings) == [threw |-> FALSE, fetch |-> settings]

callAzureOpenAI(settings) ==
  IF ~Truthy(settings.llmEndpoint) THEN Refused ELSE Fetch(settings)

callOpenAI(settings) == Fetch(settings)

callAnthropic(settings) == Fetch(settings)

callCustomLLM(settings) ==
  IF ~Truthy(settings.llmEndpoint) THEN Refused ELSE Fetch(settings)

\* LLMService._callLLM, for the settings read from storage
callLLM(settings) ==
  CASE settings.llmProvider = "azure" -> callAzureOpenAI(settings)
    [] settings.llmProvider = "openai" -> callOpenAI(settings)
    [] settings.llmProvider = "anthropic" -> callAnthropic(settings)
    [] settings.llmProvider = "custom" -> callCustomLLM(settings)
    [] OTHER -> Refused

(***************************************************************************)
(* Background: handleMessage                                               *)
(***************************************************************************)
\* the asynchronous operation handleMessage starts for a message, "none"
\* when it answers at once; tabIds and tabId say whether the message
\* carries them
OperationOf(message) ==
  CASE message.action = "findDuplicates" -> "findAndHandleDuplicates"
    [] message.action = "groupTabsByDomain" -> "groupTabsByDomain"
    [] message.action = "groupTabsByTopic" ->
         IF message.tabIds THEN "groupTabsByTopic" ELSE "none"
    [] message.action = "summarizeTab" ->
         IF message.tabId THEN "summarizeTab" ELSE "none"
    [] message.action = "getSettings" -> "getSettings"
    [] OTHER -> "none"

\* the response handleMessage sends before it returns
ImmediateResponse(message) ==
  CASE message.action = "groupTabsByTopic" ->
         [success |-> FALSE, error |-> "No tab IDs provided"]
    [] message.action = "summarizeTab" ->
         [success |-> FALSE, error |-> "No tab ID provided"]
    [] OTHER -> [success |-> FALSE, error |-> "Unknown action"]

\* the response sent by the callback given to then()
FulfilledResponse == [success |-> TRUE, error |-> ""]

\* StorageManager.getSettings catches every error and returns the defaults;
\* the other operations log and throw again
CanReject(operation) == operation # "getSettings"

(***************************************************************************)
(* DuplicateDetector: closeDuplicates and mergeDuplicates, on the list of  *)
(* the host's open tabs                                                    *)
(***************************************************************************)
\* chrome.tabs.remove(tabIds): the tabs are closed in the order given and
\* the call is rejected at the first id that is not an open tab
RECURSIVE TabsRemove(_, _, _)
TabsRemove(tabs, tabIds, k) ==
  IF k > Len(tabIds) THEN [tabs |-> tabs, rejected |-> FALSE]
  ELSE IF \A i \in DOMAIN tabs : tabs[i].id # tabIds[k]
       THEN [tabs |-> tabs, rejected |-> TRUE]
  ELSE TabsRemove(SelectIdx(tabs, [i \in DOMAIN tabs |-> tabs[i].id # tabIds[k]], 1),
                  tabIds, k + 1)

\* mutant: the original is closed with its duplicates
DuplicateIdsOf_withOriginal(group) == <<group.original.id>> \o Ids(group.duplicates)

\* group.duplicates.map(tab => tab.id).filter(id => id !== undefined)
DuplicateIdsOf(group) ==
  LET ids == Ids(group.duplicates)
  IN SelectIdx(ids, [i \in DOMAIN ids |-> ids[i] # NoId], 1)

\* the loop of closeDuplicates, from duplicateGroups[k] on
RECURSIVE CloseDuplicatesFrom(_, _, _, _)
CloseDuplicatesFrom(tabs, duplicateGroups, k, closedTabIds) ==
  IF k > Len(duplicateGroups)
  THEN [tabs |-> tabs, error |-> FALSE, value |-> closedTabIds]
  ELSE LET duplicateIds == DuplicateIdsOf(duplicateGroups[k]) IN
       IF Len(duplicateIds) = 0
       THEN CloseDuplicatesFrom(tabs, duplicateGroups, k + 1, closedTabIds)
       ELSE LET removed == TabsRemove(tabs, duplicateIds, 1) IN
            IF removed.rejected
            THEN [tabs |-> removed.tabs, error |-> TRUE, value |-> <<>>]
            ELSE CloseDuplicatesFrom(removed.tabs, duplicateGroups, k + 1,
                                     closedTabIds \o duplicateIds)

closeDuplicates(tabs, duplicateGroups) == CloseDuplicatesFrom(tabs, duplicateGroups, 1, <<>>)

\* the loop of mergeDuplicates, from duplicateGroups[k] on
RECURSIVE MergeDuplicatesFrom(_, _, _, _)
MergeDuplicatesFrom(tabs, duplicateGroups, k, results) ==
  IF k > Len(duplicateGroups)
  THEN [tabs |-> tabs, error |-> FALSE, value |-> results]
  ELSE LET group == duplicateGroups[k]
           duplicateIds == DuplicateIdsOf(group)
       IN IF Len(group.duplicates) = 0 \/ Len(duplicateIds) = 0
          THEN MergeDuplicatesFrom(tabs, duplicateGroups, k + 1, results)
          ELSE LET removed == TabsRemove(tabs, duplicateIds, 1) IN
               IF removed.rejected
               THEN [tabs |-> removed.tabs, error |-> TRUE, value |-> <<>>]
               ELSE MergeDuplicatesFrom(removed.tabs, duplicateGroups, k + 1,
                      Append(results, [originalTab |-> group.original,
                                       closedCount |-> Len(duplicateIds)]))

mergeDuplicates(tabs, duplicateGroups) == MergeDuplicatesFrom(tabs, duplicateGroups, 1, <<>>)

(***************************************************************************)
(* StorageManager: getSettings and saveSettings.  Settings are functions   *)
(* from keys to values; of the keys, theme and autoGrouping are modelled.  *)
(***************************************************************************)
defaultSettings == [key \in {"theme", "autoGrouping"} |->
                      IF key = "theme" THEN "system" ELSE "off"]

\* StorageManager.getSettings: the stored settings over the defaults
getSettings(stored) ==
  IF stored = NoResult THEN defaultSettings
  ELSE [key \in DOMAIN defaultSettings \cup DOMAIN stored |->
          IF key \in DOMAIN stored THEN stored[key] ELSE defaultSettings[key]]

\* mutant: the new settings are merged over the defaults
UpdatedSettings_overDefaults(existingSettings, settings) ==
  [key \in DOMAIN defaultSettings \cup DOMAIN settings |->
     IF key \in DOMAIN settings THEN settings[key] ELSE defaultSettings[key]]

\* { ...existingSettings, ...settings }
UpdatedSettings(existingSettings, settings) ==
  [key \in DOMAIN existingSettings \cup DOMAIN settings |->
     IF key \in DOMAIN settings THEN settings[key] ELSE existingSettings[key]]

(***************************************************************************)
(* SpecNorm: two URL strings are drawn, then compared as the detector      *)
(* compares two tabs.  An input carries the parts it was written from      *)
(* (used only to state the claims) and the text the program receives.      *)
(***************************************************************************)
MaxParams == 2

h_lower == <<"a", ".", "c", "o">>
h_mixed == <<"A", ".", "c", "o">>

\* query parameters as written: <<name, value>>
ParamPool == { <<(<<"b">>), (<<"1">>)>>,
               <<(<<"a", ",", "b">>), (<<"c">>)>>,
               <<(<<"a">>), (<<"b", ",", "c">>)>> }

SeqsUpTo(S, n) == UNION {[1..k -> S] : k \in 0..n}

Perms(q) ==
  LET n == Len(q)
      Bij == {f \in [1..n -> 1..n] : \A i, j \in 1..n : f[i] = f[j] => i = j}
  IN {[i \in 1..n |-> q[f[i]]] : f \in Bij}

RenderParams(params) ==
  Join([i \in DOMAIN params |-> params[i][1] \o <<"=">> \o params[i][2]], <<"&">>)

Render(parts) ==
  parts.scheme \o <<":", "/", "/">> \o parts.host
  \o (IF parts.port = <<>> THEN <<>> ELSE <<":">> \o parts.port)
  \o parts.path
  \o (IF parts.params = <<>> THEN <<>> ELSE <<"?">> \o RenderParams(parts.params))

UrlParts == [kind : {"url"}, scheme : {s_http, s_https}, host : {h_lower, h_mixed},
             port : {<<>>, p80, p443}, path : {<<"/">>},
             params : SeqsUpTo(ParamPool, MaxParams)]

\* strings that new URL() rejects: no scheme, a space in the host, the empty
\* string, an unclosed "[" in the host of an internal-scheme URL
MalformedTexts == { <<"a", " ", "b">>,
                    s_http \o <<":", "/", "/", "a", " ", "b", "/">>,
                    <<>>,
                    s_chromePrefix \o <<"[">> }

UrlInput(parts) == [parts |-> parts, text |-> Render(parts)]
RawInput(text) == [parts |-> [kind |-> "raw"], text |-> text]

NormInit ==
  /\ \/ \E p1 \in UrlParts :
          \E ps \in [scheme : {s_http, s_https}, host : {h_lower, h_mixed},
                     port : {<<>>, p80, p443}, params : Perms(p1.params)] :
            /\ nIn1 = UrlInput(p1)
            /\ nIn2 = UrlInput([kind |-> "url", scheme |-> ps.scheme, host |-> ps.host,
                                port |-> ps.port, path |-> p1.path, params |-> ps.params])
     \/ \E t1, t2 \in MalformedTexts :
          /\ nIn1 = RawInput(t1)
          /\ nIn2 = RawInput(t2)
  /\ nOut = NoResult

\* the comparison the detector makes of two tabs with these URLs
Compare ==
  /\ nOut = NoResult
  /\ nOut' = [kind |-> "compared",
              n1 |-> normalizeUrl(nIn1.text),
              n2 |-> normalizeUrl(nIn2.text),
              dup |-> areTabsDuplicate([url |-> nIn1.text], [url |-> nIn2.text])]
  /\ UNCHANGED <<nIn1, nIn2>>

InitNorm == NormInit /\ IdleBut("norm")
NextNorm == Compare /\ UnchangedBut("norm")
SpecNorm == InitNorm /\ [][NextNorm]_vars

(***************************************************************************)
(* Claims checked under SpecNorm                                           *)
(***************************************************************************)
Compared == nOut.kind = "compared"
BothUrls == nIn1.parts.kind = "url" /\ nIn2.parts.kind = "url"
BothMalformed == ~ParseURL(nIn1.text).ok /\ ~ParseURL(nIn2.text).ok

\* the port is absent or is written and is the default of the scheme as written
WrittenDefaultPort(parts) ==
  \/ parts.port = <<>>
  \/ parts.scheme = s_http /\ parts.port = p80
  \/ parts.scheme = s_https /\ parts.port = p443

DifferOnlyInOrderCasePort ==
  /\ BothUrls
  /\ nIn1.parts.scheme = nIn2.parts.scheme
  /\ toLowerCase(nIn1.parts.host) = toLowerCase(nIn2.parts.host)
  /\ \/ nIn1.parts.port = nIn2.parts.port
     \/ WrittenDefaultPort(nIn1.parts) /\ WrittenDefaultPort(nIn2.parts)
  /\ nIn1.parts.path = nIn2.parts.path
  /\ nIn2.parts.params \in Perms(nIn1.parts.params)

\* C5: URLs that differ only in the order of their query parameters, in the
\* letter case of the hostname or in an explicitly written default port have
\* equal normalized forms.
C5_EqualUpToOrderCasePort ==
  (Compared /\ DifferOnlyInOrderCasePort) => nOut.n1 = nOut.n2

\* the text a URL normalizes to up to and including its port
ExpectedOrigin(parts) ==
  parts.scheme \o <<":", "/", "/">> \o toLowerCase(parts.host)
  \o (IF WrittenDefaultPort(parts) THEN <<>> ELSE <<":">> \o parts.port)
  \o parts.path

\* C6: URLs with different schemes never normalize equal (and are not
\* duplicates), and a written port is dropped from the normalized form only
\* when it is the default port of the URL's own scheme.
C6_SchemeAndOwnDefaultPort ==
  (Compared /\ BothUrls) =>
    /\ nIn1.parts.scheme # nIn2.parts.scheme => (nOut.n1 # nOut.n2 /\ ~nOut.dup)
    /\ startsWith(nOut.n1, ExpectedOrigin(nIn1.parts))
    /\ startsWith(nOut.n2, ExpectedOrigin(nIn2.parts))

\* http://A.co:443/?b=1&a=b,c against https://a.co/?a=b,c&b=1 was compared
C6_Witness ==
  /\ Compared /\ BothUrls
  /\ nIn1.parts.scheme = s_http /\ nIn1.parts.host = h_mixed /\ nIn1.parts.port = p443
  /\ nIn2.parts.scheme = s_https /\ nIn2.parts.host = h_lower /\ nIn2.parts.port = <<>>
  /\ Len(nIn1.parts.params) = MaxParams
  /\ nIn1.parts.params # nIn2.parts.params
  /\ ~nOut.dup

InternalPrefixed(text) == startsWith(text, s_chromePrefix) \/ startsWith(text, s_edgePrefix)

\* C8 as stated: an unparseable string normalizes to itself, so two tabs with
\* the same malformed URL string are duplicates and two with different
\* malformed strings are not.
C8_MalformedSameIsDuplicate ==
  (Compared /\ BothMalformed) =>
    /\ nOut.n1 = nIn1.text /\ nOut.n2 = nIn2.text
    /\ nOut.dup <=> (nIn1.text = nIn2.text)

\* C8 amended: an unparseable string normalizes to itself; two tabs with the
\* same malformed URL string are duplicates exactly when that string is not
\* empty and does not start with chrome:// or edge://, and two tabs with
\* different malformed strings are never duplicates.
C8_MalformedFallsBackToText ==
  (Compared /\ BothMalformed) =>
    /\ nOut.n1 = nIn1.text /\ nOut.n2 = nIn2.text
    /\ nOut.dup <=> /\ nIn1.text = nIn2.text
                    /\ nIn1.text # <<>>
                    /\ ~InternalPrefixed(nIn1.text)

\* two tabs with the same malformed string "a b" compared as duplicates
C8_Witness ==
  /\ Compared /\ BothMalformed
  /\ nIn1.text = <<"a", " ", "b">> /\ nIn2.text = nIn1.text
  /\ nOut.dup

(***************************************************************************)
(* SpecDup: a snapshot of tabs is drawn; then the full scan                *)
(* (findDuplicatesAcrossWindows) or the single-tab lookup                  *)
(* (findDuplicatesForTab) runs on it.  The scan tests ids only for         *)
(* presence and equality, so the k-th tab of the snapshot has id k, except *)
(* for at most one tab, which has no identifier.                           *)
(***************************************************************************)
MaxTabs == 4

u_a == Render([scheme |-> s_http, host |-> h_lower, port |-> <<>>, path |-> <<"/">>, params |-> <<>>])
u_A80 == Render([scheme |-> s_http, host |-> h_mixed, port |-> p80, path |-> <<"/">>, params |-> <<>>])
u_as == Render([scheme |-> s_https, host |-> h_lower, port |-> <<>>, path |-> <<"/">>, params |-> <<>>])
u_edge == s_edgePrefix \o <<"s">>
u_none == <<>>

PageUrls == {u_a, u_A80, u_as}
InternalUrls == {s_chromeNewtab, u_edge, s_aboutBlank, u_none}

\* a snapshot holds pages and at most one kind of internal, blank or missing URL
DupInit ==
  /\ \E n \in 0..MaxTabs, x \in InternalUrls :
       \E urls \in [1..n -> PageUrls \cup {x}], noIdAt \in 0..n :
         dTabs = [k \in 1..n |-> [id |-> IF k = noIdAt THEN NoId ELSE k, url |-> urls[k]]]
  /\ dOut = NoResult

\* findDuplicatesAcrossWindows: chrome.tabs.query({}) then identifyDuplicateGroups
Scan ==
  /\ dOut = NoResult
  /\ dOut' = [kind |-> "scan", groups |-> identifyDuplicateGroups(dTabs)]
  /\ UNCHANGED dTabs

\* findDuplicatesForTab(tabId) for a tab of the snapshot
Lookup ==
  /\ dOut = NoResult
  /\ \E k \in DOMAIN dTabs :
       /\ HasId(dTabs[k])
       /\ dOut' = [kind |-> "lookup", tabId |-> dTabs[k].id,
                   duplicates |-> findDuplicatesForTab(dTabs, dTabs[k].id)]
  /\ UNCHANGED dTabs

InitDup == DupInit /\ IdleBut("dup")
NextDup == (Scan \/ Lookup) /\ UnchangedBut("dup")
SpecDup == InitDup /\ [][NextDup]_vars

(***************************************************************************)
(* Claims checked under SpecDup                                            *)
(***************************************************************************)
Scanned == dOut.kind = "scan"
LookedUp == dOut.kind = "lookup"

NoRepeats(s) == \A i, j \in DOMAIN s : s[i] = s[j] => i = j

RECURSIVE Flatten(_)
Flatten(ss) == IF ss = <<>> THEN <<>> ELSE ss[1] \o Flatten(Tail(ss))

\* the ids of the duplicates of all groups, group after group
AllDuplicateIds(groups) == Flatten([g \in DOMAIN groups |-> Ids(groups[g].duplicates)])

\* the tabs of all groups, originals included
GroupMembers(groups) ==
  UNION {{groups[g].original} \cup Range(groups[g].duplicates) : g \in DOMAIN groups}

\* C1: no tab id appears in the duplicates of two groups of one scan, nor
\* twice in the duplicates of one group.
C1_DuplicateSetsDisjoint ==
  Scanned => NoRepeats(AllDuplicateIds(dOut.groups))

\* a scan returned two groups
C1_Witness == Scanned /\ Len(dOut.groups) >= 2

\* positions of the tabs that are duplicates of the tab at position i, and i
ClassOf(tabs, i) ==
  {k \in DOMAIN tabs : k = i \/ areTabsDuplicate(tabs[i], tabs[k])}

\* the elements of the set of positions P, as the tabs in input order
RECURSIVE TabsAt(_, _, _)
TabsAt(tabs, P, k) ==
  IF k > Len(tabs) THEN <<>>
  ELSE (IF k \in P THEN <<tabs[k]>> ELSE <<>>) \o TabsAt(tabs, P, k + 1)

FirstOf(P) == CHOOSE k \in P : \A m \in P : k <= m

ThreeEqualTabs ==
  /\ Len(dTabs) = 3
  /\ \A k \in 1..3 : HasId(dTabs[k])
  /\ areTabsDuplicate(dTabs[1], dTabs[2]) /\ areTabsDuplicate(dTabs[2], dTabs[3])

ThreeEqualResult ==
  ThreeEqualTabs =>
    dOut.groups = << [original |-> dTabs[1], duplicates |-> <<dTabs[2], dTabs[3]>>] >>

\* C2 as stated: the original of a group is the first tab of its class in
\* input order and the duplicates are the rest of the class in input order.
C2_OriginalIsFirstOfClass ==
  Scanned =>
    /\ \A g \in DOMAIN dOut.groups :
         \E i \in DOMAIN dTabs :
           /\ dTabs[i] = dOut.groups[g].original
           /\ i = FirstOf(ClassOf(dTabs, i))
           /\ dOut.groups[g].duplicates = TabsAt(dTabs, ClassOf(dTabs, i) \ {i}, 1)
    /\ ThreeEqualResult

\* the members of the class of position i that have an identifier
IdClassOf(tabs, i) == {k \in ClassOf(tabs, i) : HasId(tabs[k])}

\* C2 amended: the original of a group is the first tab that has an
\* identifier of its class, in input order, and the duplicates are the other
\* tabs of the class that have an identifier, in input order; three tabs
\* with identifiers and equal normalized URLs [A,B,C] give exactly one group,
\* original A, duplicates [B,C].
C2_OriginalIsFirstWithId ==
  Scanned =>
    /\ \A g \in DOMAIN dOut.groups :
         \E i \in DOMAIN dTabs :
           /\ dTabs[i] = dOut.groups[g].original
           /\ i = FirstOf(IdClassOf(dTabs, i))
           /\ dOut.groups[g].duplicates = TabsAt(dTabs, IdClassOf(dTabs, i) \ {i}, 1)
    /\ ThreeEqualResult

\* [A,B,C] with equal normalized URLs, written differently, were scanned
C2_Witness ==
  /\ Scanned /\ ThreeEqualTabs
  /\ dTabs[1].url # dTabs[2].url
  /\ Len(dOut.groups) = 1

\* C3: a tab without an identifier is neither an original nor a duplicate.
C3_NoIdNeverGrouped ==
  Scanned => \A t \in GroupMembers(dOut.groups) : t.id # NoId

\* a scan grouped two tabs while a tab without identifier, first in the
\* list, has the same URL
C3_Witness ==
  /\ Scanned /\ Len(dOut.groups) = 1 /\ Len(dTabs) >= 3
  /\ dTabs[1].id = NoId
  /\ dTabs[1].url = dOut.groups[1].original.url

DuplicateOfNone(tabs, k) ==
  \A j \in DOMAIN tabs : j # k => ~areTabsDuplicate(tabs[k], tabs[j])

\* C4: every group has at least one duplicate, a tab that is a duplicate of
\* no other tab of the input is in no group, and no original of a group is
\* among the duplicates of any group.
C4_OnlyTabsWithDuplicates ==
  Scanned =>
    /\ \A g \in DOMAIN dOut.groups : Len(dOut.groups[g].duplicates) > 0
    /\ \A k \in DOMAIN dTabs :
         DuplicateOfNone(dTabs, k) => dTabs[k] \notin GroupMembers(dOut.groups)
    /\ \A g, h \in DOMAIN dOut.groups :
         dOut.groups[g].original \notin Range(dOut.groups[h].duplicates)

\* a scan returned a group from a list that also holds a page open only once
C4_Witness ==
  /\ Scanned /\ Len(dOut.groups) = 1
  /\ \E k \in DOMAIN dTabs :
       /\ HasId(dTabs[k]) /\ dTabs[k].url \in PageUrls
       /\ DuplicateOfNone(dTabs, k)

IsInternalUrl(url) ==
  \/ url = <<>>
  \/ startsWith(url, s_chromePrefix)
  \/ startsWith(url, s_edgePrefix)
  \/ url = s_aboutBlank

\* C7: a tab with no URL, a chrome:// or edge:// URL or about:blank is a
\* duplicate of no tab, not even of a tab with the identical URL; it is in no
\* group of a scan, and the lookup of its duplicates is empty.
C7_InternalNeverDuplicate ==
  /\ Scanned =>
       /\ \A i, j \in DOMAIN dTabs :
            IsInternalUrl(dTabs[i].url) =>
              ~areTabsDuplicate(dTabs[i], dTabs[j]) /\ ~areTabsDuplicate(dTabs[j], dTabs[i])
       /\ \A t \in GroupMembers(dOut.groups) : ~IsInternalUrl(t.url)
  /\ LookedUp =>
       /\ IsInternalUrl(GetTab(dTabs, dOut.tabId).url) => dOut.duplicates = <<>>
       /\ \A i \in DOMAIN dOut.duplicates : ~IsInternalUrl(dOut.duplicates[i].url)

\* the duplicates of an internal tab were looked up while another tab has
\* the identical URL
C7_Witness ==
  /\ LookedUp
  /\ IsInternalUrl(GetTab(dTabs, dOut.tabId).url)
  /\ \E k \in DOMAIN dTabs :
       /\ HasId(dTabs[k]) /\ dTabs[k].id # dOut.tabId
       /\ dTabs[k].url = GetTab(dTabs, dOut.tabId).url
  /\ dOut.duplicates = <<>>

(***************************************************************************)
(* SpecGroup: a window is drawn (tab k has id k; some of its tabs may      *)
(* already be in a tab group, titled or not); then one clustering          *)
(* operation of GroupManager runs on it.                                   *)
(***************************************************************************)
MaxWindowTabs == 3

h_www == s_wwwDot \o h_lower
h_b == <<"b", ".", "c", "o">>

u_wa == Render([scheme |-> s_http, host |-> h_www, port |-> <<>>, path |-> <<"/">>, params |-> <<>>])
u_b == Render([scheme |-> s_http, host |-> h_b, port |-> <<>>, path |-> <<"/">>, params |-> <<>>])
u_ctor == Render([scheme |-> s_http, host |-> s_constructor, port |-> <<>>, path |-> <<"/">>, params |-> <<>>])

\* the pages of the window and the host each is on, without a leading "www."
Sites == { [url |-> u_a, host |-> h_lower], [url |-> u_wa, host |-> h_lower],
           [url |-> u_b, host |-> h_b], [url |-> u_ctor, host |-> s_constructor] }

WindowUrls == {site.url : site \in Sites} \cup {s_chromeNewtab}

\* URL patterns a caller passes to groupByUrlPattern: "a.co", "b." and the
\* invalid "["
UrlPatterns == { h_lower, <<"b", ".">>, <<"[">> }
GroupTitles == { <<"w", "o", "r", "k">> }

\* titles the group the window starts with can have: none, or "a.co"
ExistingTitles == { <<>>, h_lower }
ExistingGroupId == 1

WindowInit ==
  /\ \E n \in 1..MaxWindowTabs :
       \E urls \in [1..n -> WindowUrls], grouped \in SUBSET (1..n), title \in ExistingTitles :
         /\ gTabs = [k \in 1..n |->
                       [id |-> k, url |-> urls[k],
                        groupId |-> IF k \in grouped THEN ExistingGroupId ELSE NoGroup]]
         /\ gGroups = IF grouped = {} THEN {}
                      ELSE {[id |-> ExistingGroupId, title |-> title, color |-> "grey"]}
  /\ gNextGroupId = ExistingGroupId + 1
  /\ gLast = NoResult

Host == HostState(gTabs, gGroups, gNextGroupId)

\* the host state after an operation, and the record of the operation
Commit(op, h) ==
  /\ gTabs' = h.tabs
  /\ gGroups' = h.groups
  /\ gNextGroupId' = h.nextId
  /\ gLast' = [kind |-> op, before |-> gTabs, beforeGroups |-> gGroups,
               created |-> h.created, error |-> h.error]

\* background groupTabsByDomain: the ungrouped tabs of the current window go
\* to GroupManager.groupTabsByDomain
BgGroupTabsByDomain ==
  LET ungroupedTabs == UngroupedTabs(gTabs)
      tabIds == Ids(ungroupedTabs)
      n == NumDomainClusters(BucketByDomain(TabsOf(gTabs, tabIds), 1, <<>>))
  IN /\ gLast = NoResult
     /\ Len(ungroupedTabs) > 0
     /\ \E colors \in [1..n -> getRandomColor] :
          Commit("groupTabsByDomain", groupTabsByDomain(Host, tabIds, colors))

\* background groupTabsByDomain once more, right after a first run; with no
\* ungrouped tab left it returns before GroupManager is called
BgGroupTabsByDomainAgain ==
  LET ungroupedTabs == UngroupedTabs(gTabs)
      tabIds == Ids(ungroupedTabs)
      n == NumDomainClusters(BucketByDomain(TabsOf(gTabs, tabIds), 1, <<>>))
  IN /\ gLast.kind = "groupTabsByDomain"
     /\ \E colors \in [1..n -> getRandomColor] :
          Commit("groupTabsByDomainTwice",
                 IF Len(ungroupedTabs) = 0 THEN Host
                 ELSE groupTabsByDomain(Host, tabIds, colors))

\* GroupManager.groupTabByDomain(tabId) for an ungrouped tab of the window
GroupTabByDomain ==
  \E k \in DOMAIN gTabs, color \in getRandomColor :
    /\ gLast = NoResult
    /\ gTabs[k].groupId = NoGroup
    /\ LET titled == GroupsTitledAs(Host, gTabs[k].id) IN
       \E existing \in (IF titled = {} THEN {NoGroup} ELSE titled) :
         Commit("groupTabByDomain", groupTabByDomain(Host, gTabs[k].id, existing, color))

\* GroupManager.groupByUrlPattern(pattern, groupTitle) on the current window
GroupByUrlPattern ==
  \E pattern \in UrlPatterns, groupTitle \in GroupTitles, color \in getRandomColor :
    /\ gLast = NoResult
    /\ Commit("groupByUrlPattern", groupByUrlPattern(Host, pattern, groupTitle, color))

InitGroup == WindowInit /\ IdleBut("group")
NextGroup ==
  (BgGroupTabsByDomain \/ BgGroupTabsByDomainAgain \/ GroupTabByDomain \/ GroupByUrlPattern)
  /\ UnchangedBut("group")
SpecGroup == InitGroup /\ [][NextGroup]_vars

(***************************************************************************)
(* Claims checked under SpecGroup                                          *)
(***************************************************************************)
SiteHosts == {site.host : site \in Sites}
HostOfPage(url) == (CHOOSE site \in Sites : site.url = url).host

\* ids of the ungrouped pages of the window on host H, in tab order
PagesOn(tabs, H) ==
  Ids(SelectIdx(tabs,
                [i \in DOMAIN tabs |->
                   /\ tabs[i].groupId = NoGroup
                   /\ tabs[i].url \in {site.url : site \in Sites}
                   /\ HostOfPage(tabs[i].url) = H],
                1))

CreatedTitled(H) == {c \in DOMAIN gLast.created : gLast.created[c].title = H}

GroupOfTab(tabId) == GetTab(gTabs, tabId).groupId

\* what domain clustering is to do for host H
DomainClusterFor(H) ==
  LET ids == PagesOn(gLast.before, H) IN
  IF Len(ids) >= 2
  THEN /\ Cardinality(CreatedTitled(H)) = 1
       /\ \A c \in CreatedTitled(H) :
            /\ gLast.created[c].tabIds = ids
            /\ \A i \in DOMAIN ids : GroupOfTab(ids[i]) = gLast.created[c].groupId
            /\ \E g \in gGroups : g.id = gLast.created[c].groupId /\ g.title = H
  ELSE /\ CreatedTitled(H) = {}
       /\ \A i \in DOMAIN ids : GroupOfTab(ids[i]) = NoGroup

\* C9: groupTabsByDomain creates exactly one group, titled with the host,
\* for every host (leading "www." stripped) that at least 2 of the ungrouped
\* non-internal tabs are on, and none for a host with one tab; tabs on a.co,
\* www.a.co and b.co give one group titled a.co of the first two tabs.
C9_OneGroupPerHost ==
  gLast.kind = "groupTabsByDomain" =>
    /\ \A H \in SiteHosts : DomainClusterFor(H)
    /\ \A c \in DOMAIN gLast.created : gLast.created[c].title \in SiteHosts
    /\ (Len(gLast.before) = 3 /\ [k \in 1..3 |-> gLast.before[k].url] = <<u_a, u_wa, u_b>>
        /\ \A k \in 1..3 : gLast.before[k].groupId = NoGroup)
       => (/\ Len(gLast.created) = 1
           /\ gLast.created[1].title = h_lower
           /\ gLast.created[1].tabIds = <<1, 2>>
           /\ GroupOfTab(3) = NoGroup)

\* C10: every group a clustering operation creates is created from at least
\* 2 distinct tab ids.
C10_GroupsHaveTwoTabs ==
  gLast.kind # "none" =>
    \A c \in DOMAIN gLast.created : Cardinality(Range(gLast.created[c].tabIds)) >= 2

DomainTitles == SiteHosts

\* no two groups of the window carry the same domain title
OneGroupPerDomainTitle ==
  \A g1, g2 \in gGroups : (g1.title = g2.title /\ g1.title \in DomainTitles) => g1 = g2

\* C13: a second run of domain clustering right after the first creates no
\* group and leaves the groups and their members as the first run left them,
\* and no two groups carry the same domain title.
C13_SecondRunIdle ==
  gLast.kind = "groupTabsByDomainTwice" =>
    /\ gLast.created = <<>>
    /\ gTabs = gLast.before
    /\ gGroups = gLast.beforeGroups
    /\ OneGroupPerDomainTitle

\* the group titled H the window had before the operation
ExistingTitled(H) == {g \in gLast.beforeGroups : g.title = H}

\* C14: when the window already has a group titled H, the tabs of a domain
\* cluster for H join that group and no new group titled H is created, by
\* groupTabByDomain and by groupTabsByDomain alike, so the window keeps at
\* most one group per domain title.
C14_ReuseGroupTitledWithDomain ==
  gLast.kind \in {"groupTabsByDomain", "groupTabByDomain"} =>
    /\ \A c \in DOMAIN gLast.created : ExistingTitled(gLast.created[c].title) = {}
    /\ gLast.kind = "groupTabsByDomain" =>
         \A H \in SiteHosts \ {s_constructor} : \A g \in ExistingTitled(H) :
           LET ids == PagesOn(gLast.before, H) IN
           Len(ids) >= 2 => \A i \in DOMAIN ids : GroupOfTab(ids[i]) = g.id
    /\ OneGroupPerDomainTitle

(***************************************************************************)
(* SpecTime: a window whose tabs have ids from a pool of three bursts, a   *)
(* tab without id among them, and one groupByCreationTime call on it.      *)
(***************************************************************************)
MaxTimeTabs == 6

\* tab ids of the window: bursts 1,2,3 and 1000,1001, the lone 5000, and a
\* tab the host reports without id
TabIdPool == {NoId, 1, 2, 3, 1000, 1001, 5000}

\* timeWindowInMinutes: 0, 1/6 (ids up to 100 apart), 5/3 (ids up to 1000
\* apart, the gap between 1 and 1001) and 10 minutes
TimeWindows == { [num |-> 0, den |-> 1], [num |-> 1, den |-> 6],
                 [num |-> 5, den |-> 3], [num |-> 10, den |-> 1] }

\* what toLocaleTimeString gives during the call
Timestamps == { <<"0", "9", ":", "0", "5">>, <<"0", "9", ":", "0", "6">> }

\* the members of a set of ids in increasing order
RECURSIVE Ascending(_)
Ascending(S) ==
  IF S = {} THEN <<>>
  ELSE LET least == CHOOSE x \in S : \A y \in S : x <= y IN <<least>> \o Ascending(S \ {least})

Reverse(s) == [i \in DOMAIN s |-> s[Len(s) + 1 - i]]

\* chrome.tabs.query: the tabs in window order (by id, ascending or
\* descending), at most one of them already in a group
TimeInit ==
  /\ \E S \in SUBSET TabIdPool, backwards \in BOOLEAN :
       /\ S # {} /\ Cardinality(S) <= MaxTimeTabs
       /\ \E grouped \in {{}} \cup {{x} : x \in S \ {NoId}} :
            LET order == IF backwards THEN Reverse(Ascending(S)) ELSE Ascending(S) IN
            /\ gTabs = [k \in DOMAIN order |->
                          [id |-> order[k], url |-> u_a,
                           groupId |-> IF order[k] \in grouped THEN ExistingGroupId
                                                               ELSE NoGroup]]
            /\ gGroups = IF grouped = {} THEN {}
                         ELSE {[id |-> ExistingGroupId, title |-> <<>>, color |-> "grey"]}
  /\ gNextGroupId = ExistingGroupId + 1
  /\ gLast = NoResult

\* GroupManager.groupByCreationTime(timeWindowInMinutes) on the current window
GroupByCreationTime ==
  \E timeWindowInMinutes \in TimeWindows :
    LET n == NumTimeClusters(TimeGroupsOf(gTabs, timeWindowInMinutes)) IN
    /\ gLast = NoResult
    /\ \E stamps \in [1..n -> Timestamps], colors \in [1..n -> getRandomColor] :
         LET h == groupByCreationTime(Host, timeWindowInMinutes, stamps, colors) IN
         /\ gTabs' = h.tabs
         /\ gGroups' = h.groups
         /\ gNextGroupId' = h.nextId
         /\ gLast' = [kind |-> "groupByCreationTime", before |-> gTabs,
                      beforeGroups |-> gGroups, window |-> timeWindowInMinutes,
                      created |-> h.created, error |-> h.error]

InitTime == TimeInit /\ IdleBut("group")
NextTime == GroupByCreationTime /\ UnchangedBut("group")
SpecTime == InitTime /\ [][NextTime]_vars

(***************************************************************************)
(* Claims checked under SpecTime                                           *)
(***************************************************************************)
TimeGrouped == gLast.kind = "groupByCreationTime"

\* the ids of the ungrouped tabs before the call, a tab without id counting
\* as id 0 as in the program's comparisons
UngroupedIdsBefore == {gLast.before[i].id : i \in {j \in DOMAIN gLast.before :
                                                     gLast.before[j].groupId = NoGroup}}

\* a and b follow each other in the sorted ids
ConsecutiveIds(a, b) ==
  /\ a \in UngroupedIdsBefore /\ b \in UngroupedIdsBefore /\ a < b
  /\ ~ \E m \in UngroupedIdsBefore : a < m /\ m < b

\* the id gap is within the window: gap * 0.1 <= minutes * 60
GapWithin(a, b) == (b - a) * gLast.window.den <= gLast.window.num * 600

\* the ids that start a new bucket: further from the id before them than
\* the window allows
BucketStarts ==
  {b \in UngroupedIdsBefore : \E a \in UngroupedIdsBefore : ConsecutiveIds(a, b) /\ ~GapWithin(a, b)}

\* the buckets that are to become groups, without their tab that has no id:
\* x and y are in one bucket when no bucket starts after x up to y
ExpectedTimeGroups ==
  LET starts == BucketStarts
      U == UngroupedIdsBefore
      BucketOf(x) == {y \in U : ~ \E b \in starts : (x < b /\ b <= y) \/ (y < b /\ b <= x)}
  IN {B \in {BucketOf(x) \ {NoId} : x \in U} : Cardinality(B) >= 2}

CreatedIdLists == {gLast.created[c].tabIds : c \in DOMAIN gLast.created}

SixTabExample ==
  /\ TimeGrouped
  /\ UngroupedIdsBefore = {1, 2, 3, 1000, 1001, 5000}
  /\ Len(gLast.before) = 6
  /\ gLast.window = [num |-> 1, den |-> 6]

\* C11: groupByCreationTime sorts the ungrouped tabs by id, keeps two
\* consecutive tabs in one bucket exactly when gap * 0.1 <= minutes * 60,
\* makes groups only of buckets with at least 2 tabs, and the groups are
\* disjoint; ids 1,2,3,1000,1001,5000 with gaps above 100 separated give the
\* two groups {1,2,3} and {1000,1001} and leave tab 5000 ungrouped.
C11_TimeBuckets ==
  TimeGrouped =>
    /\ {Range(ids) : ids \in CreatedIdLists} = ExpectedTimeGroups
    /\ Cardinality(CreatedIdLists) = Len(gLast.created)
    /\ \A ids \in CreatedIdLists :
         /\ ids = Ascending(Range(ids))
         /\ Len(ids) >= 2
    /\ \A c, d \in DOMAIN gLast.created :
         c # d => Range(gLast.created[c].tabIds) \cap Range(gLast.created[d].tabIds) = {}
    /\ \A i \in DOMAIN gTabs :
         gTabs[i].groupId =
           IF \E c \in DOMAIN gLast.created : gTabs[i].id \in Range(gLast.created[c].tabIds)
           THEN (CHOOSE r \in Range(gLast.created) : gTabs[i].id \in Range(r.tabIds)).groupId
           ELSE gLast.before[i].groupId
    /\ SixTabExample =>
         /\ CreatedIdLists = {<<1, 2, 3>>, <<1000, 1001>>}
         /\ GetTab(gTabs, 5000).groupId = NoGroup

\* the six-tab example has run, given in descending order, and made two groups
C11_Witness ==
  /\ SixTabExample
  /\ gLast.before[1].id = 5000
  /\ Len(gLast.created) = 2

(***************************************************************************)
(* SpecParse: a completion text is written from one or two sections and    *)
(* parsed against a batch.  The input carries the sections it was written  *)
(* from (used only to state the claims) and the text the parser receives.  *)
(***************************************************************************)
MaxListed == 2

\* the decimal digits of n
RECURSIVE ToDigits(_)
ToDigits(n) == IF n < 10 THEN <<Digits[n + 1]>> ELSE ToDigits(n \div 10) \o <<Digits[(n % 10) + 1]>>

\* the batches: tab details with ids 5 and 12, or 12, 5 and a tab without id
\* (tab.id || 0)
TabBatches == { <<[id |-> 5], [id |-> 12]>>, <<[id |-> 12], [id |-> 5], [id |-> 0]>> }

\* what a list can name: a literal id (5 and 12 are in the batches, 9 is not)
\* or a "Tab N" ordinal (4 is beyond the batches)
ListedPool == { [kind |-> "id", n |-> 5], [kind |-> "id", n |-> 12], [kind |-> "id", n |-> 9],
                [kind |-> "ord", n |-> 1], [kind |-> "ord", n |-> 2], [kind |-> "ord", n |-> 4] }

RenderListed(t) == IF t.kind = "ord" THEN s_TabSp \o ToDigits(t.n) ELSE ToDigits(t.n)

\* a section: its header ("Group N Name:" or "<Word> Group:"), the label of
\* its id line (none when the line is missing) and what the line lists
SectionPool ==
  { [header |-> hd, label |-> lb, listed |-> ls] :
      hd \in {"numbered", "named"}, lb \in {s_TabIDs, s_Tabs, <<>>},
      ls \in UNION {[1..n -> ListedPool] : n \in 0..MaxListed} }

\* the sections that can follow the first one
SecondSectionPool ==
  { [header |-> "numbered", label |-> s_TabIDs,
     listed |-> <<[kind |-> "id", n |-> 5], [kind |-> "id", n |-> 12]>>],
    [header |-> "numbered", label |-> s_TabIDs, listed |-> <<[kind |-> "id", n |-> 5]>>],
    [header |-> "named", label |-> s_Tabs,
     listed |-> <<[kind |-> "ord", n |-> 1], [kind |-> "ord", n |-> 2]>>] }

\* the name written for the k-th section
SectionName(k) == <<Upper[k]>>

RenderSection(sec, k) ==
  (IF sec.header = "numbered" THEN s_GroupSp \o ToDigits(k) \o s_SpName
                              ELSE <<"W", "o", "r", "k">> \o s_SpGroup)
  \o <<" ">> \o SectionName(k) \o <<"\n">>
  \o (IF sec.label = <<>> THEN <<>>
      ELSE <<"-", " ">> \o sec.label \o <<" ">>
           \o Join([i \in DOMAIN sec.listed |-> RenderListed(sec.listed[i])], <<",", " ">>)
           \o <<"\n">>)
  \o <<"-", " ", "R", "e", "a", "s", "o", "n", ":", " ", "x", "\n", "\n">>

RECURSIVE RenderSections(_, _)
RenderSections(secs, k) ==
  IF k > Len(secs) THEN <<>> ELSE RenderSection(secs[k], k) \o RenderSections(secs, k + 1)

RenderCompletion(secs) == <<"H", "e", "r", "e", ":", "\n", "\n">> \o RenderSections(secs, 1)

ParseInit ==
  /\ \E first \in SectionPool, tabBatch \in TabBatches :
       \E secs \in {<<first>>} \cup {<<first, second>> : second \in SecondSectionPool} :
         aIn = [kind |-> "completion", sections |-> secs,
                analysisText |-> RenderCompletion(secs), tabBatch |-> tabBatch]
  /\ aOut = NoResult

\* this._parseGroupAnalysis(analysis, batch)
Parse ==
  /\ aOut = NoResult
  /\ aOut' = [kind |-> "parsed", groups |-> parseGroupAnalysis(aIn.analysisText, aIn.tabBatch)]
  /\ UNCHANGED aIn

InitParse == ParseInit /\ IdleBut("parse")
NextParse == Parse /\ UnchangedBut("parse")
SpecParse == InitParse /\ [][NextParse]_vars

(***************************************************************************)
(* Claims checked under SpecParse                                          *)
(***************************************************************************)
Parsed == aOut.kind = "parsed"

BatchIds == Range(Ids(aIn.tabBatch))

\* the ids of the batch a section's line names: by ordinal when the line
\* has a "Tab N", else by literal id
ValidIdsOf(sec) ==
  IF sec.label = <<>> THEN {}
  ELSE IF \E i \in DOMAIN sec.listed : sec.listed[i].kind = "ord"
  THEN {aIn.tabBatch[sec.listed[i].n].id :
          i \in {j \in DOMAIN sec.listed : /\ sec.listed[j].kind = "ord"
                                           /\ sec.listed[j].n \in 1..Len(aIn.tabBatch)}}
  ELSE {sec.listed[i].n : i \in DOMAIN sec.listed} \cap BatchIds

ClustersNamed(name) == {c \in DOMAIN aOut.groups : aOut.groups[c].name = name}

\* C12: every cluster the parser returns holds only ids of the batch, a
\* section left with fewer than 2 valid ids yields no cluster, and two
\* "Group N Name:" sections that each list at least 2 valid ids yield exactly
\* two clusters.
C12_ClustersFromBatch ==
  Parsed =>
    /\ \A c \in DOMAIN aOut.groups : Range(aOut.groups[c].tabIds) \subseteq BatchIds
    /\ \A k \in DOMAIN aIn.sections :
         Cardinality(ValidIdsOf(aIn.sections[k])) < 2 => ClustersNamed(SectionName(k)) = {}
    /\ (/\ Len(aIn.sections) = 2
        /\ \A k \in 1..2 : /\ aIn.sections[k].header = "numbered"
                           /\ Cardinality(ValidIdsOf(aIn.sections[k])) >= 2)
       => Len(aOut.groups) = 2

(***************************************************************************)
(* SpecDupGroup: the tabs of a window are scanned for duplicates and the   *)
(* duplicate groups found are turned into tab groups.                      *)
(***************************************************************************)
\* pages of the window: three spellings of one page, and a malformed URL
DupWindowUrls == {u_a, u_A80, u_wa, <<"a", " ", "b">>}

\* chrome.tabs.query({}): at most one tab without id, at most one tab
\* already in a group
DupWindowInit ==
  /\ \E n \in 1..MaxTabs :
       \E urls \in [1..n -> DupWindowUrls], noIdAt \in 0..n, groupedAt \in 0..n :
         /\ gTabs = [k \in 1..n |->
                       [id |-> IF k = noIdAt THEN NoId ELSE k, url |-> urls[k],
                        groupId |-> IF k = groupedAt THEN ExistingGroupId ELSE NoGroup]]
         /\ gGroups = IF groupedAt = 0 THEN {}
                      ELSE {[id |-> ExistingGroupId, title |-> <<>>, color |-> "blue"]}
  /\ gNextGroupId = ExistingGroupId + 1
  /\ gLast = NoResult

\* the popup's "group duplicates": findDuplicatesAcrossWindows, then
\* groupDuplicates on what it found
GroupDuplicates ==
  /\ gLast = NoResult
  /\ Commit("groupDuplicates", groupDuplicates(Host, identifyDuplicateGroups(gTabs)))

InitDupGroup == DupWindowInit /\ IdleBut("group")
NextDupGroup == GroupDuplicates /\ UnchangedBut("group")
SpecDupGroup == InitDupGroup /\ [][NextDupGroup]_vars

(***************************************************************************)
(* Claims checked under SpecDupGroup                                       *)
(***************************************************************************)
\* the ids of the original tab and of every tab that duplicates it
WithDuplicates(tabs, originalId) ==
  {tabs[i].id : i \in {j \in DOMAIN tabs :
                         /\ tabs[j].id # NoId
                         /\ \/ tabs[j].id = originalId
                            \/ areTabsDuplicate(GetTab(tabs, originalId), tabs[j])}}

MembersOf(groupId) == {gTabs[i].id : i \in {j \in DOMAIN gTabs : gTabs[j].groupId = groupId}}

\* C15: every tab group groupDuplicates creates is red, whatever the palette,
\* and holds the original together with all of its duplicates.
C15_DuplicateGroupsAreRed ==
  gLast.kind = "groupDuplicates" =>
    \A c \in DOMAIN gLast.created :
      LET made == gLast.created[c] IN
      /\ \E g \in gGroups : g.id = made.groupId /\ g.color = "red"
      /\ MembersOf(made.groupId) = WithDuplicates(gLast.before, made.tabIds[1])
      /\ Cardinality(MembersOf(made.groupId)) >= 2

\* a group of an original and two duplicates was created, one of the tabs
\* coming out of a blue group
C15_Witness ==
  /\ gLast.kind = "groupDuplicates"
  /\ \E c \in DOMAIN gLast.created :
       /\ Len(gLast.created[c].tabIds) = 3
       /\ \E i \in DOMAIN gLast.before :
            /\ gLast.before[i].id \in Range(gLast.created[c].tabIds)
            /\ gLast.before[i].groupId = ExistingGroupId

(***************************************************************************)
(* SpecSmart: one LLM-based clustering operation on a window, for every    *)
(* way the settings, the content extraction and the LLM call can turn out. *)
(***************************************************************************)
SmartUrls == {u_a, u_b, s_chromeNewtab}

\* the window: at most one tab already in a group
SmartInit ==
  /\ \E n \in 1..MaxWindowTabs :
       \E urls \in [1..n -> SmartUrls], groupedAt \in 0..n :
         /\ gTabs = [k \in 1..n |->
                       [id |-> k, url |-> urls[k],
                        groupId |-> IF k = groupedAt THEN ExistingGroupId ELSE NoGroup]]
         /\ gGroups = IF groupedAt = 0 THEN {}
                      ELSE {[id |-> ExistingGroupId, title |-> <<>>, color |-> "grey"]}
  /\ gNextGroupId = ExistingGroupId + 1
  /\ gLast = NoResult

LlmFailure == [ok |-> FALSE, text |-> <<>>]

IdList(ns) == [i \in DOMAIN ns |-> [kind |-> "id", n |-> ns[i]]]
TopicSection(listed) == [header |-> "numbered", label |-> s_TabIDs, listed |-> listed]

\* completions the LLM gives for a topic prompt
TopicReplies ==
  { RenderCompletion(<<TopicSection(IdList(<<1, 2>>))>>),
    RenderCompletion(<<TopicSection(IdList(<<2, 2>>))>>),
    RenderCompletion(<<TopicSection(IdList(<<3>>))>>),
    RenderCompletion(<<TopicSection(<<[kind |-> "ord", n |-> 1], [kind |-> "ord", n |-> 2]>>)>>),
    RenderCompletion(<<TopicSection(IdList(<<1, 9>>))>>),
    RenderCompletion(<<TopicSection(IdList(<<1, 2>>)), TopicSection(IdList(<<2, 3>>))>>) }

\* completions the LLM gives for a similarity prompt
SimilarReplies ==
  { s_none,
    <<"2">>,
    <<"2", ",", " ", "3">>,
    <<"1", ",", " ", "9">>,
    <<"2", "3">>,
    <<"3", ",", " ", "3">>,
    <<"N", "o", "n", "e", ":", " ", "2">> }

\* the environment of one operation: the settings are incomplete, or they
\* are complete, at most one tab's content cannot be extracted, and the LLM
\* call fails or replies
Environments(tabs, replyTexts) ==
  { [configured |-> FALSE, contentFails |-> {}, reply |-> LlmFailure] }
  \cup
  { [configured |-> TRUE, contentFails |-> fails, reply |-> reply] :
      fails \in {{}} \cup {{tabs[i].id} : i \in DOMAIN tabs},
      reply \in {LlmFailure} \cup {[ok |-> TRUE, text |-> t] : t \in replyTexts} }

\* the record of an LLM-based operation
CommitSmart(op, h, env, ref, outcome) ==
  /\ gTabs' = h.tabs
  /\ gGroups' = h.groups
  /\ gNextGroupId' = h.nextId
  /\ gLast' = [kind |-> op, before |-> gTabs, beforeGroups |-> gGroups,
               created |-> h.created, error |-> h.error, env |-> env, ref |-> ref,
               prompts |-> outcome.prompts, value |-> outcome.value]

\* the popup's "group by topic": the ungrouped tabs of the window go to
\* GroupManager.groupTabsByTopic
GroupTabsByTopic ==
  LET tabIds == Ids(UngroupedTabs(gTabs)) IN
  /\ gLast = NoResult
  /\ Len(tabIds) > 0
  /\ \E env \in Environments(gTabs, TopicReplies) :
       \E suggested \in {suggestTabGroups(gTabs, tabIds, env.configured, env.contentFails,
                                          <<env.reply>>)} :
         LET n == Cardinality({k \in DOMAIN suggested.value :
                                 Len(suggested.value[k].tabIds) > 1})
         IN \E colors \in [1..n -> getRandomColor] :
              CommitSmart("groupTabsByTopic", groupTabsByTopic(Host, suggested, colors),
                          env, NoId, suggested)

\* the context menu's "group similar": GroupManager.groupSimilarTabs(tab.id);
\* findSimilarTabs is not reached when the tab is a special page
GroupSimilarTabs ==
  \E k \in DOMAIN gTabs :
    /\ gLast = NoResult
    /\ \E env \in Environments(<<gTabs[k]>>, SimilarReplies) :
         \E similar \in {IF IsSpecialPage(gTabs[k])
                         THEN [error |-> FALSE, value |-> <<>>, prompts |-> <<>>]
                         ELSE findSimilarTabs(gTabs, gTabs[k].id, env.configured,
                                              env.contentFails, env.reply)} :
           \E color \in IF similar.value = <<>> THEN {"grey"} ELSE getRandomColor :
             CommitSmart("groupSimilarTabs",
                         groupSimilarTabs(Host, gTabs[k].id, similar, color),
                         env, gTabs[k].id, similar)

InitSmart == SmartInit /\ IdleBut("group")
NextSmart == (GroupTabsByTopic \/ GroupSimilarTabs) /\ UnchangedBut("group")
SpecSmart == InitSmart /\ [][NextSmart]_vars

(***************************************************************************)
(* Claims checked under SpecSmart                                          *)
(***************************************************************************)
SmartOps == {"groupTabsByTopic", "groupSimilarTabs"}

\* the operation called the LLM and the call failed
LlmCallFailed == gLast.kind \in SmartOps /\ gLast.prompts # <<>> /\ ~gLast.env.reply.ok

\* C16: when the LLM call fails during topic or similarity clustering the
\* operation ends with an error for its caller, never normally with an
\* empty or partial result.
C16_LlmFailureIsError == LlmCallFailed => gLast.error

PageTabs(tabs) == {i \in DOMAIN tabs : tabs[i].url \in SmartUrls \ {s_chromeNewtab}}

\* the tabs whose content the operation went to extract and could not: an
\* ungrouped tab for topic clustering, the reference tab (a page, with some
\* other ungrouped page in the window) for similarity clustering
ContentExtractionFailed ==
  /\ gLast.kind \in SmartOps
  /\ gLast.env.configured
  /\ gLast.env.contentFails # {}
  /\ IF gLast.kind = "groupTabsByTopic"
     THEN \E i \in DOMAIN gLast.before :
            gLast.before[i].groupId = NoGroup /\ gLast.before[i].id \in gLast.env.contentFails
     ELSE /\ gLast.ref \in gLast.env.contentFails
          /\ \E i \in PageTabs(gLast.before) : gLast.before[i].id = gLast.ref
          /\ \E i \in PageTabs(gLast.before) :
               gLast.before[i].id # gLast.ref /\ gLast.before[i].groupId = NoGroup

\* what the operation gets from the LLM service when every extraction succeeds
ValueWithContent ==
  IF gLast.kind = "groupTabsByTopic"
  THEN suggestTabGroups(gLast.before, Ids(UngroupedTabs(gLast.before)), TRUE, {},
                        <<gLast.env.reply>>).value
  ELSE findSimilarTabs(gLast.before, gLast.ref, TRUE, {}, gLast.env.reply).value

\* C17: a failed content extraction only degrades that tab to title/URL in
\* the prompt: the LLM is still called and the clustering gives the result
\* it gives when the extraction succeeds.
C17_ContentFailureDegrades ==
  ContentExtractionFailed =>
    /\ Len(gLast.prompts) >= 1
    /\ ~gLast.error
    /\ gLast.value = ValueWithContent

\* the tabs findSimilarTabs may group with the reference tab: the other
\* tabs of the window that are ungrouped pages
EligibleIdsBefore ==
  {gLast.before[i].id : i \in {j \in PageTabs(gLast.before) :
                                 /\ gLast.before[j].id # gLast.ref
                                 /\ gLast.before[j].groupId = NoGroup}}

\* C18: whatever the LLM replies, the group groupSimilarTabs creates holds
\* the reference tab and otherwise only tabs that were eligible (other tabs
\* of the window, ungrouped, not special pages); other ids of the reply are
\* discarded, and when none remains no group is created.
C18_SimilarGroupMembers ==
  gLast.kind = "groupSimilarTabs" =>
    /\ Len(gLast.created) <= 1
    /\ \A c \in DOMAIN gLast.created :
         /\ gLast.ref \in Range(gLast.created[c].tabIds)
         /\ Range(gLast.created[c].tabIds) \ {gLast.ref} \subseteq EligibleIdsBefore
         /\ Range(gLast.created[c].tabIds) \ {gLast.ref} # {}
         /\ MembersOf(gLast.created[c].groupId) = Range(gLast.created[c].tabIds)
    /\ Range(gLast.value) \subseteq EligibleIdsBefore
    /\ gLast.value = <<>> => (gLast.created = <<>> /\ gTabs = gLast.before /\ ~gLast.error)

\* the reply "2, 3" named a tab that was not eligible, and a group was
\* created without it
C18_Witness ==
  /\ gLast.kind = "groupSimilarTabs"
  /\ gLast.env.reply = [ok |-> TRUE, text |-> <<"2", ",", " ", "3">>]
  /\ Len(gLast.created) = 1
  /\ 3 \notin Range(gLast.created[1].tabIds)

(***************************************************************************)
(* SpecLlm: one LLMService operation at a time runs through its awaits     *)
(* (isConfigured, the preparation of the prompt, _callLLM once per batch)  *)
(* while the options page saves settings in between.                       *)
(***************************************************************************)
MaxBatches == 2

Providers == {"azure", "openai", "anthropic", "custom", "other"}
ApiKeys == {"", "k"}
Endpoints == {"", "e"}
SettingsPool == [llmProvider : Providers, llmApiKey : ApiKeys, llmEndpoint : Endpoints]

LlmOperations == {"summarizeTab", "summarizeGroup", "findSimilarTabs", "suggestTabGroups"}

\* no operation in flight
NoCall == [op |-> "none", pc |-> "returned", calls |-> 0,
           checked |-> NoResult, outcome |-> "none"]

\* StorageManager.saveSettings with the form of the options page
SaveSettings ==
  \E settings \in SettingsPool :
    /\ settings # lSettings
    /\ lSettings' = settings
    /\ UNCHANGED <<lCall, lFetch>>

\* an operation is called; suggestTabGroups has one _callLLM per batch
StartOperation ==
  \E op \in LlmOperations :
    \E n \in IF op = "suggestTabGroups" THEN 1..MaxBatches ELSE {1} :
      /\ lCall.pc = "returned"
      /\ lCall' = [op |-> op, pc |-> "isConfigured", calls |-> n,
                   checked |-> NoResult, outcome |-> "running"]
      /\ lFetch' = NoResult
      /\ UNCHANGED lSettings

\* if (!(await this.isConfigured())) throw new Error('LLM is not configured')
IsConfigured ==
  /\ lCall.pc = "isConfigured"
  /\ lCall' = IF isConfigured(lSettings)
              THEN [lCall EXCEPT !.pc = "prepare", !.checked = lSettings]
              ELSE [lCall EXCEPT !.pc = "returned", !.checked = lSettings,
                                 !.outcome = "notConfigured"]
  /\ UNCHANGED <<lSettings, lFetch>>

\* the awaits between the test and the call: the tabs are read and their
\* content is extracted, and the operation may end there
Prepare ==
  /\ lCall.pc = "prepare"
  /\ \E goesOn \in BOOLEAN :
       lCall' = IF goesOn THEN [lCall EXCEPT !.pc = "_callLLM"]
                ELSE [lCall EXCEPT !.pc = "returned", !.outcome = "noCall"]
  /\ UNCHANGED <<lSettings, lFetch>>

\* await this._callLLM(prompt): the settings are read again; the request
\* is sent or the call throws, and the provider answers or fails
CallLLM ==
  /\ lCall.pc = "_callLLM"
  /\ \E r \in {callLLM(lSettings)} :
       \E ok \in IF r.threw THEN {FALSE} ELSE BOOLEAN :
         /\ lFetch' = IF r.threw THEN lFetch ELSE r.fetch
         /\ lCall' =
              IF lCall.op = "suggestTabGroups" /\ lCall.calls > 1
              THEN [lCall EXCEPT !.calls = @ - 1]
              ELSE [lCall EXCEPT !.pc = "returned", !.calls = 0,
                                 !.outcome = IF r.threw THEN "refused"
                                             ELSE IF ok THEN "answered"
                                             ELSE "failed"]
  /\ UNCHANGED lSettings

InitLlm ==
  /\ lSettings \in SettingsPool
  /\ lCall = NoCall
  /\ lFetch = NoResult
  /\ IdleBut("llm")

NextLlm ==
  (SaveSettings \/ StartOperation \/ IsConfigured \/ Prepare \/ CallLLM) /\ UnchangedBut("llm")

SpecLlm == InitLlm /\ [][NextLlm]_vars

(***************************************************************************)
(* Claims checked under SpecLlm                                            *)
(***************************************************************************)
\* settings complete for the provider they select
CompleteSettings(settings) ==
  /\ settings.llmProvider \in {"azure", "openai", "anthropic", "custom"}
  /\ settings.llmApiKey # ""
  /\ settings.llmProvider \in {"azure", "custom"} => settings.llmEndpoint # ""

\* C19: no HTTP request is sent to an LLM endpoint with settings that are
\* incomplete for the selected provider, whatever settings saves interleave
\* with the operation in flight.
C19_NoRequestWithIncompleteSettings ==
  lFetch # NoResult => CompleteSettings(lFetch)

(***************************************************************************)
(* SpecMsg: messages arrive at the background page; each is handled by     *)
(* handleMessage, and the promise of its operation settles later.          *)
(* SpecMsgLive adds that every pending promise settles.                    *)
(***************************************************************************)
MaxMessages == 2

MessageActions ==
  {"findDuplicates", "groupTabsByDomain", "groupTabsByTopic", "summarizeTab",
   "getSettings", "other"}

MessagePool == [action : MessageActions, tabIds : BOOLEAN, tabId : BOOLEAN]

\* handleMessage(message, sender, sendResponse)
HandleMessage ==
  \E message \in MessagePool :
    /\ Len(mMessages) < MaxMessages
    /\ mMessages' = Append(mMessages, message)
    /\ mPromises' = Append(mPromises, IF OperationOf(message) = "none"
                                      THEN "none" ELSE "pending")
    /\ mResponses' = Append(mResponses, IF OperationOf(message) = "none"
                                        THEN <<ImmediateResponse(message)>>
                                        ELSE <<>>)

\* the operation's promise is fulfilled and the callback of then() runs
OperationFulfils ==
  \E i \in DOMAIN mMessages :
    /\ mPromises[i] = "pending"
    /\ mPromises' = [mPromises EXCEPT ![i] = "fulfilled"]
    /\ mResponses' = [mResponses EXCEPT ![i] = Append(@, FulfilledResponse)]
    /\ UNCHANGED mMessages

\* the operation's promise is rejected: then() was given no second
\* callback and no catch() follows
OperationRejects ==
  \E i \in DOMAIN mMessages :
    /\ mPromises[i] = "pending"
    /\ CanReject(OperationOf(mMessages[i]))
    /\ mPromises' = [mPromises EXCEPT ![i] = "rejected"]
    /\ UNCHANGED <<mMessages, mResponses>>

InitMsg ==
  /\ mMessages = <<>>
  /\ mPromises = <<>>
  /\ mResponses = <<>>
  /\ IdleBut("msg")

Settles == (OperationFulfils \/ OperationRejects) /\ UnchangedBut("msg")

NextMsg == (HandleMessage \/ OperationFulfils \/ OperationRejects) /\ UnchangedBut("msg")

SpecMsg == InitMsg /\ [][NextMsg]_vars

SpecMsgLive == SpecMsg /\ WF_vars(Settles)

(***************************************************************************)
(* Claims checked under SpecMsgLive                                        *)
(***************************************************************************)
Received(i) == i \in DOMAIN mMessages

\* the one response of message i, fitting the end of its operation
Answered(i) ==
  /\ Received(i)
  /\ Len(mResponses[i]) = 1
  /\ mResponses[i][1].success = (mPromises[i] = "fulfilled")

\* C20: for every message received by handleMessage exactly one response
\* is eventually sent: {success: true} when the operation succeeds and
\* {success: false, error} when it fails, also when the operation rejects.
C20_ExactlyOneResponse ==
  \A i \in 1..MaxMessages :
    /\ [](Received(i) => Len(mResponses[i]) <= 1)
    /\ Received(i) ~> Answered(i)

(***************************************************************************)
(* SpecClose: the open tabs are scanned for duplicates                     *)
(* (findDuplicatesAcrossWindows); the user may close one tab; then         *)
(* closeDuplicates or mergeDuplicates runs on the groups of the scan.      *)
(***************************************************************************)
CloseUrls == {u_a, u_A80, u_b, s_aboutBlank}

CloseInit ==
  /\ \E n \in 0..MaxTabs :
       \E urls \in [1..n -> CloseUrls], noIdAt \in 0..n :
         dTabs = [k \in 1..n |-> [id |-> IF k = noIdAt THEN NoId ELSE k, url |-> urls[k]]]
  /\ dOut = NoResult

\* findDuplicates of the popup: the scan whose groups the modal keeps
FindDuplicates ==
  /\ dOut = NoResult
  /\ dOut' = [kind |-> "findDuplicates", groups |-> identifyDuplicateGroups(dTabs),
              changed |-> FALSE]
  /\ UNCHANGED dTabs

\* the user closes a tab while the modal is shown
TabClosed ==
  /\ dOut.kind = "findDuplicates"
  /\ ~dOut.changed
  /\ \E k \in DOMAIN dTabs :
       /\ HasId(dTabs[k])
       /\ dTabs' = SelectIdx(dTabs, [i \in DOMAIN dTabs |-> i # k], 1)
  /\ dOut' = [dOut EXCEPT !.changed = TRUE]

CommitClose(op, outcome) ==
  /\ dTabs' = outcome.tabs
  /\ dOut' = [kind |-> op, groups |-> dOut.groups, changed |-> dOut.changed,
              atCall |-> dTabs, error |-> outcome.error, value |-> outcome.value]

\* the 'Merge All Duplicates' button: closeDuplicates(duplicateGroups)
CloseDuplicates ==
  /\ dOut.kind = "findDuplicates"
  /\ dOut.groups # <<>>
  /\ CommitClose("closeDuplicates", closeDuplicates(dTabs, dOut.groups))

\* mergeDuplicates(duplicateGroups)
MergeDuplicates ==
  /\ dOut.kind = "findDuplicates"
  /\ dOut.groups # <<>>
  /\ CommitClose("mergeDuplicates", mergeDuplicates(dTabs, dOut.groups))

InitClose == CloseInit /\ IdleBut("dup")
NextClose ==
  (FindDuplicates \/ TabClosed \/ CloseDuplicates \/ MergeDuplicates) /\ UnchangedBut("dup")
SpecClose == InitClose /\ [][NextClose]_vars

(***************************************************************************)
(* Claims checked under SpecClose                                          *)
(***************************************************************************)
Closing == dOut.kind \in {"closeDuplicates", "mergeDuplicates"}

OpenIds(tabs) == {tabs[i].id : i \in DOMAIN tabs} \ {NoId}

DuplicatesOf(g) == {dOut.groups[g].duplicates[i].id : i \in DOMAIN dOut.groups[g].duplicates}

\* the host rejects the removal of the duplicates of group g: one of them
\* was no longer open when the operation was called
RemovalRejected(g) == ~(DuplicatesOf(g) \subseteq OpenIds(dOut.atCall))

\* the groups the result of the operation reports, by their position
ReportedGroups ==
  IF dOut.kind = "closeDuplicates"
  THEN {g \in DOMAIN dOut.groups : DuplicatesOf(g) \subseteq Range(dOut.value)}
  ELSE {g \in DOMAIN dOut.groups :
          \E r \in DOMAIN dOut.value : dOut.value[r].originalTab = dOut.groups[g].original}

\* C21: given several duplicate groups, when the host rejects the removal
\* for one group the duplicates of the remaining groups are still removed
\* and the result reports the groups that were closed.
C21_RejectedGroupDoesNotAbort ==
  (Closing /\ Len(dOut.groups) >= 2 /\ \E g \in DOMAIN dOut.groups : RemovalRejected(g)) =>
    /\ \A h \in DOMAIN dOut.groups :
         ~RemovalRejected(h) => DuplicatesOf(h) \cap OpenIds(dTabs) = {}
    /\ ~dOut.error
    /\ ReportedGroups = {h \in DOMAIN dOut.groups : ~RemovalRejected(h)}

SameNormalizedUrl(tab1, tab2) ==
  /\ ~IsInternalUrl(tab1.url) /\ ~IsInternalUrl(tab2.url)
  /\ normalizeUrl(tab1.url) = normalizeUrl(tab2.url)

\* the parts of C24 that do not count the tabs left per URL
ClosedAsScanned ==
  /\ ~dOut.error
  /\ \A g \in DOMAIN dOut.groups :
       /\ dOut.groups[g].original \in Range(dTabs)
       /\ DuplicatesOf(g) \cap OpenIds(dTabs) = {}
       /\ Len(dOut.groups[g].duplicates) >= 1
  /\ Len(dTabs) = Len(dOut.atCall) - Len(AllDuplicateIds(dOut.groups))
  /\ identifyDuplicateGroups(dTabs) = <<>>
  /\ dOut.kind = "closeDuplicates" => dOut.value = AllDuplicateIds(dOut.groups)
  /\ dOut.kind = "mergeDuplicates" =>
       /\ Len(dOut.value) = Len(dOut.groups)
       /\ \A g \in DOMAIN dOut.groups :
            /\ dOut.value[g].originalTab = dOut.groups[g].original
            /\ dOut.value[g].closedCount = Len(dOut.groups[g].duplicates)

\* C24 as stated: with no tab change between the calls, after the scan and
\* closeDuplicates or mergeDuplicates every original is open, every
\* duplicate is closed, exactly one tab remains for each normalized URL that
\* had duplicates, a second scan returns no groups, and mergeDuplicates
\* reports the number of duplicates of each group.
C24_OneTabPerUrlRemains ==
  (Closing /\ ~dOut.changed) =>
    /\ ClosedAsScanned
    /\ \A g \in DOMAIN dOut.groups :
         Cardinality({i \in DOMAIN dTabs :
                        SameNormalizedUrl(dTabs[i], dOut.groups[g].original)}) = 1

\* C24 amended: as C24, where exactly one tab that has an identifier
\* remains for each normalized URL that had duplicates.
C24_OneTabWithIdPerUrlRemains ==
  (Closing /\ ~dOut.changed) =>
    /\ ClosedAsScanned
    /\ \A g \in DOMAIN dOut.groups :
         Cardinality({i \in DOMAIN dTabs :
                        /\ HasId(dTabs[i])
                        /\ SameNormalizedUrl(dTabs[i], dOut.groups[g].original)}) = 1

\* two groups were merged, one of them holding a duplicate written
\* differently from its original, and two tabs are left
C24_Witness ==
  /\ dOut.kind = "mergeDuplicates" /\ ~dOut.changed
  /\ Len(dOut.groups) = 2
  /\ \E g \in DOMAIN dOut.groups :
       /\ dOut.value[g].closedCount = 1
       /\ dOut.groups[g].duplicates[1].url # dOut.groups[g].original.url
  /\ Len(dTabs) = 2

(***************************************************************************)
(* SpecPrim: one of the group primitives of GroupManager is called on a    *)
(* window, with a list of tab ids or a set of properties that may be       *)
(* empty.                                                                  *)
(***************************************************************************)
MaxListedTabs == 2

\* the primitives read no URL: every tab is on the same page, and any set
\* of the tabs is in the group the window starts with
PrimInit ==
  /\ \E n \in 1..MaxWindowTabs :
       \E grouped \in SUBSET (1..n) :
         /\ gTabs = [k \in 1..n |->
                       [id |-> k, url |-> u_a,
                        groupId |-> IF k \in grouped THEN ExistingGroupId ELSE NoGroup]]
         /\ gGroups = IF grouped = {} THEN {}
                      ELSE {[id |-> ExistingGroupId, title |-> <<>>, color |-> "grey"]}
  /\ gNextGroupId = ExistingGroupId + 1
  /\ gLast = NoResult

\* lists of ids of tabs of the window, without repetition, the empty list
\* among them
TabIdLists ==
  {ids \in UNION {[1..n -> 1..Len(gTabs)] : n \in 0..MaxListedTabs} :
     \A i, j \in DOMAIN ids : ids[i] = ids[j] => i = j}

\* the update properties a caller passes for a set of keys, {} for no key
UpdateProperties(keys) ==
  [key \in keys |-> IF key = "title" THEN <<"w", "o", "r", "k">> ELSE "blue"]

CommitPrim(op, input, h) ==
  /\ gTabs' = h.tabs
  /\ gGroups' = h.groups
  /\ gNextGroupId' = h.nextId
  /\ gLast' = [kind |-> op, before |-> gTabs, beforeGroups |-> gGroups,
               created |-> h.created, error |-> h.error, input |-> input, calls |-> h.calls]

CreateGroup ==
  \E tabIds \in TabIdLists, title \in GroupTitles \cup {<<>>} :
    /\ gLast = NoResult
    /\ CommitPrim("createGroup", tabIds, createGroup(Host, tabIds, title, "blue"))

AddTabsToGroup ==
  \E tabIds \in TabIdLists :
    /\ gLast = NoResult
    /\ CommitPrim("addTabsToGroup", tabIds, addTabsToGroup(Host, ExistingGroupId, tabIds))

UngroupTabs ==
  \E tabIds \in TabIdLists :
    /\ gLast = NoResult
    /\ CommitPrim("ungroupTabs", tabIds, ungroupTabs(Host, tabIds))

UpdateGroup ==
  \E keys \in SUBSET {"title", "color"} :
    /\ gLast = NoResult
    /\ CommitPrim("updateGroup", UpdateProperties(keys),
                  updateGroup(Host, ExistingGroupId, UpdateProperties(keys)))

InitPrim == PrimInit /\ IdleBut("group")
NextPrim == (CreateGroup \/ AddTabsToGroup \/ UngroupTabs \/ UpdateGroup) /\ UnchangedBut("group")
SpecPrim == InitPrim /\ [][NextPrim]_vars

(***************************************************************************)
(* Claims checked under SpecPrim                                           *)
(***************************************************************************)
\* a primitive was called with an empty tab-id list, or updateGroup with
\* no properties
EmptyInput ==
  /\ gLast.kind \in {"createGroup", "addTabsToGroup", "ungroupTabs", "updateGroup"}
  /\ DOMAIN gLast.input = {}

\* C22: createGroup, addTabsToGroup and ungroupTabs called with an empty
\* tab-id list, and updateGroup called with no properties, fail with an
\* error before any host API call is made and leave all tabs and tab groups
\* unchanged.
C22_EmptyInputFailsFirst ==
  EmptyInput =>
    /\ gLast.error
    /\ gLast.calls = 0
    /\ gTabs = gLast.before
    /\ gGroups = gLast.beforeGroups
    /\ gLast.created = <<>>

\* createGroup was called with an empty list on a window that has a group
C22_Witness ==
  /\ EmptyInput
  /\ gLast.kind = "createGroup"
  /\ gLast.beforeGroups # {}
  /\ gLast.error

(***************************************************************************)
(* SpecStore: the side panel saves a new theme and the options page saves  *)
(* its form (autoGrouping stands for the keys of the form); each call of   *)
(* saveSettings awaits getSettings and then chrome.storage.sync.set.       *)
(***************************************************************************)
Surfaces == {"sidepanel", "options"}
Themes == {"system", "light", "dark"}
Switches == {"on", "off"}

\* the values a surface can give to the key it saves
SavedBy(surface) ==
  IF surface = "sidepanel"
  THEN {[key \in {"theme"} |-> theme] : theme \in {"light", "dark"}}
  ELSE {[key \in {"autoGrouping"} |-> switch] : switch \in Switches}

NoSave == [pc |-> "idle", settings |-> <<>>, existing |-> NoResult, seen |-> 0]

StoreInit ==
  /\ \/ sStored = NoResult
     \/ \E theme \in Themes, switch \in Switches :
          sStored = [key \in {"theme", "autoGrouping"} |->
                       IF key = "theme" THEN theme ELSE switch]
  /\ sSaves = [surface \in Surfaces |-> NoSave]
  /\ sWrites = <<>>

\* a surface calls saveSettings(settings) with a value that changes its key
CallSaveSettings ==
  \E surface \in Surfaces :
    \E settings \in SavedBy(surface) :
      /\ sSaves[surface].pc = "idle"
      /\ \A key \in DOMAIN settings : getSettings(sStored)[key] # settings[key]
      /\ sSaves' = [sSaves EXCEPT ![surface] = [NoSave EXCEPT !.pc = "getSettings",
                                                          !.settings = settings]]
      /\ UNCHANGED <<sStored, sWrites>>

\* const existingSettings = await this.getSettings()
GetSettings ==
  \E surface \in Surfaces :
    /\ sSaves[surface].pc = "getSettings"
    /\ sSaves' = [sSaves EXCEPT ![surface] =
                    [@ EXCEPT !.pc = "set", !.existing = getSettings(sStored),
                              !.seen = Len(sWrites)]]
    /\ UNCHANGED <<sStored, sWrites>>

\* await chrome.storage.sync.set({ settings: updatedSettings })
SetSettings ==
  \E surface \in Surfaces :
    /\ sSaves[surface].pc = "set"
    /\ sStored' = UpdatedSettings(sSaves[surface].existing, sSaves[surface].settings)
    /\ sWrites' = Append(sWrites, surface)
    /\ sSaves' = [sSaves EXCEPT ![surface] = [@ EXCEPT !.pc = "done"]]

InitStore == StoreInit /\ IdleBut("store")
NextStore == (CallSaveSettings \/ GetSettings \/ SetSettings) /\ UnchangedBut("store")
SpecStore == InitStore /\ [][NextStore]_vars

(***************************************************************************)
(* Claims checked under SpecStore                                          *)
(***************************************************************************)
\* the stored settings hold the change of a surface
Kept(surface) ==
  \A key \in DOMAIN sSaves[surface].settings :
    sStored[key] = sSaves[surface].settings[key]

BothSaved == Len(sWrites) = 2

\* C23: when two saveSettings calls from different surfaces, each changing
\* a different key, both read the stored settings before either writes, the
\* stored settings afterwards hold only the later writer's change and the
\* other update is lost; when the calls run one after the other both
\* changes are kept.
C23_ConcurrentSavesClobber ==
  BothSaved =>
    /\ Kept(sWrites[2])
    /\ (sSaves[sWrites[1]].seen = 0 /\ sSaves[sWrites[2]].seen = 0) => ~Kept(sWrites[1])
    /\ sSaves[sWrites[2]].seen = 1 => Kept(sWrites[1])

\* both calls read before either wrote, the options page wrote last and
\* the theme saved by the side panel is lost
C23_Witness ==
  /\ BothSaved
  /\ sSaves["sidepanel"].seen = 0 /\ sSaves["options"].seen = 0
  /\ sWrites = <<"sidepanel", "options">>
  /\ sStored["theme"] # sSaves["sidepanel"].settings["theme"]
  /\ Kept("options")

(***************************************************************************)
(* SpecFrame: a window of pages and special pages, some of its tabs in a   *)
(* group already, and one clustering call on it: by domain for all its     *)
(* tabs or for one tab, by URL pattern, or by creation time.               *)
(***************************************************************************)
\* the two palette colors getRandomColor gives in these windows
FrameColors == {Palette[1], Palette[2]}

\* patterns passed to groupByUrlPattern: "a.co", and "." that matches every
\* URL that is not empty
FramePatterns == { h_lower, <<".">> }

\* a window holds pages of a.co and at most one kind of special page; tabs
\* of both kinds can be in the group the window starts with
FrameInit ==
  /\ \E n \in 1..MaxWindowTabs, special \in InternalUrls :
       \E urls \in [1..n -> {u_a, u_wa, special}], grouped \in SUBSET (1..n),
          title \in ExistingTitles :
         /\ gTabs = [k \in 1..n |->
                       [id |-> k, url |-> urls[k],
                        groupId |-> IF k \in grouped THEN ExistingGroupId ELSE NoGroup]]
         /\ gGroups = IF grouped = {} THEN {}
                      ELSE {[id |-> ExistingGroupId, title |-> title, color |-> "grey"]}
  /\ gNextGroupId = ExistingGroupId + 1
  /\ gLast = NoResult

\* the host state after a clustering call on tabId (NoId: on the window)
CommitFrame(op, tabId, h) ==
  /\ gTabs' = h.tabs
  /\ gGroups' = h.groups
  /\ gNextGroupId' = h.nextId
  /\ gLast' = [kind |-> op, tabId |-> tabId, before |-> gTabs, beforeGroups |-> gGroups,
               created |-> h.created, error |-> h.error]

\* GroupManager.groupTabsByDomain(tabIds) with the ids of every tab of the
\* window
AllTabsByDomain ==
  LET tabIds == Ids(gTabs)
      n == NumDomainClusters(BucketByDomain(TabsOf(gTabs, tabIds), 1, <<>>))
  IN /\ gLast = NoResult
     /\ \E colors \in [1..n -> FrameColors] :
          CommitFrame("groupTabsByDomain", NoId, groupTabsByDomain(Host, tabIds, colors))

\* GroupManager.groupTabByDomain(tabId) for any tab of the window
AnyTabByDomain ==
  \E k \in DOMAIN gTabs, color \in FrameColors :
    /\ gLast = NoResult
    /\ LET titled == GroupsTitledAs(Host, gTabs[k].id) IN
       \E existing \in (IF titled = {} THEN {NoGroup} ELSE titled) :
         CommitFrame("groupTabByDomain", gTabs[k].id,
                     groupTabByDomain(Host, gTabs[k].id, existing, color))

\* GroupManager.groupByUrlPattern(pattern, groupTitle) on the window
AnyPattern ==
  \E pattern \in FramePatterns, groupTitle \in GroupTitles, color \in FrameColors :
    /\ gLast = NoResult
    /\ CommitFrame("groupByUrlPattern", NoId,
                   groupByUrlPattern(Host, pattern, groupTitle, color))

\* GroupManager.groupByCreationTime(timeWindowInMinutes) on the window
AnyCreationTime ==
  \E timeWindowInMinutes \in TimeWindows :
    LET n == NumTimeClusters(TimeGroupsOf(gTabs, timeWindowInMinutes)) IN
    /\ gLast = NoResult
    /\ \E stamps \in [1..n -> Timestamps], colors \in [1..n -> FrameColors] :
         CommitFrame("groupByCreationTime", NoId,
                     groupByCreationTime(Host, timeWindowInMinutes, stamps, colors))

InitFrame == FrameInit /\ IdleBut("group")
NextFrame ==
  (AllTabsByDomain \/ AnyTabByDomain \/ AnyPattern \/ AnyCreationTime) /\ UnchangedBut("group")
SpecFrame == InitFrame /\ [][NextFrame]_vars

(***************************************************************************)
(* Claims checked under SpecFrame                                          *)
(***************************************************************************)
Clustered == gLast # NoResult

\* the tabs the call leaves in the group, or out of every group, they were in
KeptMembership(S) == \A i \in S : gTabs[i].groupId = gLast.before[i].groupId

GroupedBefore == {i \in DOMAIN gLast.before : gLast.before[i].groupId # NoGroup}
SpecialBefore == {i \in DOMAIN gLast.before : IsInternalUrl(gLast.before[i].url)}
GivenTab == {i \in DOMAIN gLast.before : gLast.before[i].id = gLast.tabId}

\* the tabs domain and pattern clustering must not touch, and the tabs the
\* call looks at: all of the window, or the tab groupTabByDomain is given
Ineligible ==
  IF gLast.kind = "groupByCreationTime" THEN GroupedBefore
  ELSE GroupedBefore \cup SpecialBefore
InScope == IF gLast.kind = "groupTabByDomain" THEN GivenTab ELSE DOMAIN gLast.before

NothingChanged == gTabs = gLast.before /\ gGroups = gLast.beforeGroups

\* C25: domain clustering (for groupTabByDomain: of the tab it is given) and
\* pattern clustering leave every tab that is already in a group in its
\* group and every tab whose URL is missing, chrome://, edge:// or
\* about:blank out of a group; clustering by creation time leaves every tab
\* that is already in a group in its group; and when every tab the call
\* looks at is such a tab, or no tab gets a group, no tab and no group is
\* changed
C25_ClusteringFrame ==
  Clustered =>
    /\ DOMAIN gTabs = DOMAIN gLast.before
    /\ KeptMembership(GroupedBefore)
    /\ KeptMembership(InScope \cap Ineligible)
    /\ (InScope \subseteq Ineligible) => NothingChanged
    /\ KeptMembership(DOMAIN gLast.before) => NothingChanged

\* a call that makes a group next to a grouped tab and a special page that
\* both stay as they were
C25_Witness ==
  /\ Clustered
  /\ gLast.kind \in {"groupTabsByDomain", "groupByUrlPattern"}
  /\ Len(gLast.created) > 0
  /\ GroupedBefore # {}
  /\ SpecialBefore \ GroupedBefore # {}
  /\ KeptMembership(GroupedBefore \cup SpecialBefore)

(***************************************************************************)
(* SpecAuto: a tab is created while other tabs are open; handleTabCreated  *)
(* reads the settings and sets the timer of the duplicate check; during    *)
(* the delay the tab navigates or is closed; then the timer fires.         *)
(***************************************************************************)
\* tabs open before the new one
MaxOpenTabs == 2

\* tab.url of the onCreated event: not yet set, a page, or the new tab page
CreatedUrls == {u_none, u_a, s_chromeNewtab}

\* pages the open tabs show and the new tab navigates to
VisitedUrls == {u_a, u_b}

AutoInit ==
  /\ \E n \in 0..MaxOpenTabs :
       \E urls \in [1..n -> VisitedUrls] :
         dTabs = [k \in 1..n |-> [id |-> k, url |-> urls[k]]]
  /\ dOut = NoResult

IsOpen(tabs, tabId) == \E i \in DOMAIN tabs : tabs[i].id = tabId

\* chrome.tabs.onCreated: handleTabCreated(tab) up to the timer it sets; tab
\* is the object of the event
HandleTabCreated ==
  /\ dOut = NoResult
  /\ \E url \in CreatedUrls, autoDeduplication \in BOOLEAN :
       LET tab == [id |-> Len(dTabs) + 1, url |-> url] IN
       /\ dTabs' = Append(dTabs, tab)
       /\ dOut' = [kind |-> "tabCreated", tab |-> tab,
                   autoDeduplication |-> autoDeduplication,
                   pc |-> IF autoDeduplication THEN "timer" ELSE "done",
                   atTimeout |-> <<>>, tabGot |-> NoResult, changedSince |-> FALSE,
                   checked |-> FALSE, logged |-> FALSE, notified |-> FALSE]

DeferredCheckPending == dOut.kind = "tabCreated" /\ dOut.pc \in {"timer", "get"}

\* the new tab loads a page while the check is pending
TabNavigated ==
  /\ DeferredCheckPending
  /\ IsOpen(dTabs, dOut.tab.id)
  /\ \E url \in VisitedUrls :
       /\ GetTab(dTabs, dOut.tab.id).url # url
       /\ dTabs' = [i \in DOMAIN dTabs |->
                      IF dTabs[i].id = dOut.tab.id THEN [dTabs[i] EXCEPT !.url = url]
                      ELSE dTabs[i]]
  /\ dOut' = [dOut EXCEPT !.changedSince = (dOut.pc = "get")]

\* the new tab is closed while the check is pending
NewTabClosed ==
  /\ DeferredCheckPending
  /\ IsOpen(dTabs, dOut.tab.id)
  /\ dTabs' = SelectIdx(dTabs, [i \in DOMAIN dTabs |-> dTabs[i].id # dOut.tab.id], 1)
  /\ dOut' = [dOut EXCEPT !.changedSince = (dOut.pc = "get")]

\* the test of the timer callback, on the tab object of the event
ChecksForDuplicates(tab) ==
  HasId(tab) /\ tab.url # <<>> /\ ~startsWith(tab.url, s_chromePrefix)

\* the timer fires after the delay: the callback tests the tab and
\* findDuplicatesForTab awaits chrome.tabs.get, which rejects for a tab that
\* is not open; the error is logged by the callback
TimerFires ==
  /\ dOut.kind = "tabCreated" /\ dOut.pc = "timer"
  /\ dOut' = [dOut EXCEPT
                !.atTimeout = dTabs,
                !.checked = ChecksForDuplicates(dOut.tab),
                !.logged = ChecksForDuplicates(dOut.tab) /\ ~IsOpen(dTabs, dOut.tab.id),
                !.pc = IF ChecksForDuplicates(dOut.tab) /\ IsOpen(dTabs, dOut.tab.id)
                       THEN "get" ELSE "done",
                !.tabGot = IF IsOpen(dTabs, dOut.tab.id) THEN GetTab(dTabs, dOut.tab.id)
                           ELSE NoResult]
  /\ UNCHANGED dTabs

\* findDuplicatesForTab after chrome.tabs.query({}): the other tabs that are
\* duplicates of the tab chrome.tabs.get gave; notifyDuplicateFound when
\* there are any
TabsQueried ==
  /\ dOut.kind = "tabCreated" /\ dOut.pc = "get"
  /\ LET otherTabs == SelectIdx(dTabs, [i \in DOMAIN dTabs |-> dTabs[i].id # dOut.tab.id], 1)
         duplicates ==
           SelectIdx(otherTabs,
                     [i \in DOMAIN otherTabs |-> areTabsDuplicate(dOut.tabGot, otherTabs[i])], 1)
     IN dOut' = [dOut EXCEPT !.pc = "done", !.notified = Len(duplicates) > 0]
  /\ UNCHANGED dTabs

InitAuto == AutoInit /\ IdleBut("dup")
NextAuto ==
  (HandleTabCreated \/ TabNavigated \/ NewTabClosed \/ TimerFires \/ TabsQueried)
  /\ UnchangedBut("dup")
SpecAuto == InitAuto /\ [][NextAuto]_vars

(***************************************************************************)
(* Claims checked under SpecAuto                                           *)
(***************************************************************************)
\* the deferred check of a tab has ended and nothing changed after the
\* timer fired
DeferredCheckEnded ==
  /\ dOut.kind = "tabCreated" /\ dOut.autoDeduplication
  /\ dOut.pc = "done" /\ ~dOut.changedSince

\* the new tab, when the timer fired, showed a page another open tab showed
DuplicateAtTimeout ==
  /\ IsOpen(dOut.atTimeout, dOut.tab.id)
  /\ Len(findDuplicatesForTab(dOut.atTimeout, dOut.tab.id)) > 0

\* C26: with autoDeduplication on, when the deferred check of a created tab
\* has ended: a tab that was created with an empty URL and at the end of
\* the delay shows a page open in another tab has been reported as a
\* duplicate, and a tab that was closed during the delay has given a logged
\* error and no notification
C26_DeferredCheckUsesUrlAfterDelay ==
  DeferredCheckEnded =>
    /\ (dOut.tab.url = <<>> /\ DuplicateAtTimeout) => dOut.notified
    /\ ~IsOpen(dOut.atTimeout, dOut.tab.id) => (dOut.logged /\ ~dOut.notified)

(***************************************************************************)
(* SpecRace: tabs of one domain are created in a window with autoGrouping  *)
(* on; the timer of each sets off groupTabByDomain for it, and the         *)
(* handlers of several tabs run interleaved: each continues after one of   *)
(* its awaits at a time.                                                   *)
(***************************************************************************)
\* tabs created, each with a handler
MaxHandlers == 3

\* tabs of the domain open and ungrouped before the first is created
MaxTabsBefore == 1

RaceUrls == {u_a, u_wa}

RaceInit ==
  /\ \E n \in 0..MaxTabsBefore :
       gTabs = [k \in 1..n |-> [id |-> k, url |-> u_a, groupId |-> NoGroup]]
  /\ gGroups = {}
  /\ gNextGroupId = ExistingGroupId
  /\ gLast = [kind |-> "autoGrouping", handlers |-> <<>>, ids |-> {}, late |-> FALSE]

\* a handler between two awaits: where it is, and its local variables
NewHandler ==
  [pc |-> "timer", domain |-> <<>>, target |-> NoGroup, groupTabIds |-> <<>>,
   groupId |-> NoGroup, error |-> FALSE]

Handlers == gLast.handlers
HandlerIds == gLast.ids

SetHandler(tabId, handler) ==
  gLast' = [gLast EXCEPT !.handlers = [id \in HandlerIds |->
                                         IF id = tabId THEN handler ELSE Handlers[id]]]

\* chrome.tabs.onCreated with autoGrouping on: handleTabCreated sets the
\* timer for the tab; late records a tab created after a timer has fired
RaceTabCreated ==
  /\ gLast.kind = "autoGrouping"
  /\ Cardinality(HandlerIds) < MaxHandlers
  /\ \E url \in RaceUrls :
       LET tabId == Len(gTabs) + 1 IN
       /\ gTabs' = Append(gTabs, [id |-> tabId, url |-> url, groupId |-> NoGroup])
       /\ gLast' = [gLast EXCEPT
                      !.ids = HandlerIds \cup {tabId},
                      !.late = gLast.late \/ \E id \in HandlerIds : Handlers[id].pc # "timer",
                      !.handlers = [id \in HandlerIds \cup {tabId} |->
                                      IF id = tabId THEN NewHandler ELSE Handlers[id]]]
  /\ UNCHANGED <<gGroups, gNextGroupId>>

\* the timer fires and chrome.tabs.get answers: a tab in a group is skipped
TabGot ==
  \E tabId \in HandlerIds :
    LET tab == GetTab(gTabs, tabId)
        d == ExtractDomain(tab.url)
    IN /\ Handlers[tabId].pc = "timer"
       /\ SetHandler(tabId,
                     IF SkippedForGrouping(tab) \/ ~d.ok
                     THEN [Handlers[tabId] EXCEPT !.pc = "done", !.error = ~d.ok]
                     ELSE [Handlers[tabId] EXCEPT !.pc = "groups", !.domain = d.domain])
       /\ UNCHANGED <<gTabs, gGroups, gNextGroupId>>

\* getGroupsInWindow answers: the first group titled with the domain, if any
GroupsGot ==
  \E tabId \in HandlerIds :
    LET titled == {g.id : g \in {x \in gGroups : x.title = Handlers[tabId].domain}} IN
    /\ Handlers[tabId].pc = "groups"
    /\ \E existing \in (IF titled = {} THEN {NoGroup} ELSE titled) :
         SetHandler(tabId,
                    IF existing # NoGroup
                    THEN [Handlers[tabId] EXCEPT !.pc = "add", !.target = existing]
                    ELSE [Handlers[tabId] EXCEPT !.pc = "tabs"])
    /\ UNCHANGED <<gTabs, gGroups, gNextGroupId>>

\* addTabsToGroup(group.id, [tabId]): the host rejects a group that is gone
TabAdded ==
  \E tabId \in HandlerIds :
    LET target == Handlers[tabId].target
        gone == \A g \in gGroups : g.id # target
        h == addTabsToGroup(Host, target, <<tabId>>)
    IN /\ Handlers[tabId].pc = "add"
       /\ gTabs' = IF gone THEN gTabs ELSE h.tabs
       /\ gGroups' = IF gone THEN gGroups ELSE h.groups
       /\ SetHandler(tabId, [Handlers[tabId] EXCEPT !.pc = "done", !.error = gone])
       /\ UNCHANGED gNextGroupId

\* chrome.tabs.query({ windowId }) answers: the other ungrouped tabs of the
\* domain
TabsGot ==
  \E tabId \in HandlerIds :
    LET sameDomainTabs == SameDomainTabs(gTabs, tabId, Handlers[tabId].domain) IN
    /\ Handlers[tabId].pc = "tabs"
    /\ SetHandler(tabId,
                  IF Len(sameDomainTabs) > 0
                  THEN [Handlers[tabId] EXCEPT !.pc = "group",
                                               !.groupTabIds = <<tabId>> \o Ids(sameDomainTabs)]
                  ELSE [Handlers[tabId] EXCEPT !.pc = "done"])
    /\ UNCHANGED <<gTabs, gGroups, gNextGroupId>>

\* createGroup: chrome.tabs.group({ tabIds }) answers with the new group
TabsGrouped ==
  \E tabId \in HandlerIds :
    LET h == TabsGroupNew(Host, Handlers[tabId].groupTabIds) IN
    /\ Handlers[tabId].pc = "group"
    /\ gTabs' = h.tabs
    /\ gGroups' = h.groups
    /\ gNextGroupId' = h.nextId
    /\ SetHandler(tabId, [Handlers[tabId] EXCEPT !.pc = "update", !.groupId = gNextGroupId])

\* createGroup: chrome.tabGroups.update(groupId, { title, color }); the
\* host rejects a group that is gone
GroupTitled ==
  \E tabId \in HandlerIds, color \in FrameColors :
    LET groupId == Handlers[tabId].groupId
        gone == \A g \in gGroups : g.id # groupId
        h == TabGroupsUpdate(Host, groupId, Handlers[tabId].domain, color)
    IN /\ Handlers[tabId].pc = "update"
       /\ gGroups' = IF gone THEN gGroups ELSE h.groups
       /\ SetHandler(tabId, [Handlers[tabId] EXCEPT !.pc = "done", !.error = gone])
       /\ UNCHANGED <<gTabs, gNextGroupId>>

InitRace == RaceInit /\ IdleBut("group")
NextRace ==
  (RaceTabCreated \/ TabGot \/ GroupsGot \/ TabAdded \/ TabsGot \/ TabsGrouped \/ GroupTitled)
  /\ UnchangedBut("group")
SpecRace == InitRace /\ [][NextRace]_vars

(***************************************************************************)
(* Claims checked under SpecRace                                           *)
(***************************************************************************)
\* several tabs were created and the handler of each has ended
HandlersEnded ==
  /\ gLast.kind = "autoGrouping"
  /\ Cardinality(HandlerIds) >= 2
  /\ \A id \in HandlerIds : Handlers[id].pc = "done"

TabsIn(g) == {i \in DOMAIN gTabs : gTabs[i].groupId = g.id}

OneTitledGroupOfTwo ==
  /\ \A g1, g2 \in gGroups : g1.title = g2.title => g1.id = g2.id
  /\ \A g \in gGroups : g.title # <<>> /\ Cardinality(TabsIn(g)) >= 2

\* when every tab was created before the first timer fired, the handlers
\* leave at most one group
CreatedBeforeFirstTimer == (HandlersEnded /\ ~gLast.late) => OneTitledGroupOfTwo

\* C27: when the handlers of the tabs created in the window have all
\* ended, no two tab groups have the same title, and every group has a
\* title and at least 2 tabs
C27_OneGroupPerDomain ==
  HandlersEnded => OneTitledGroupOfTwo

(***************************************************************************)
(* The single-tab lookup against the full scan, checked under SpecDup      *)
(***************************************************************************)
AllHaveIds == \A i \in DOMAIN dTabs : HasId(dTabs[i])

\* the tabs of a group, the original first
TabsOfGroup(group) == <<group.original>> \o group.duplicates

\* the groups of the full scan of the snapshot that hold the tab
GroupsHolding(tabId) ==
  LET groups == identifyDuplicateGroups(dTabs) IN
  {groups[g] : g \in {k \in DOMAIN groups : tabId \in Range(Ids(TabsOfGroup(groups[k])))}}

OtherTabs(tabSeq, tabId) ==
  SelectIdx(tabSeq, [i \in DOMAIN tabSeq |-> tabSeq[i].id # tabId], 1)

\* C28: on a snapshot of tabs that all have ids, findDuplicatesForTab(t)
\* does not contain t, it is non-empty exactly when a group of the full
\* scan holds t as original or duplicate, and it is then the other tabs of
\* that group
C28_LookupAgreesWithScan ==
  (LookedUp /\ AllHaveIds) =>
    /\ dOut.tabId \notin Range(Ids(dOut.duplicates))
    /\ (dOut.duplicates # <<>>) <=> (GroupsHolding(dOut.tabId) # {})
    /\ \A group \in GroupsHolding(dOut.tabId) :
         dOut.duplicates = OtherTabs(TabsOfGroup(group), dOut.tabId)

\* the lookup of a tab that the scan lists as a duplicate, in a group of
\* three, next to a tab that is in no group
C28_Witness ==
  /\ LookedUp /\ AllHaveIds
  /\ Len(dOut.duplicates) = 2
  /\ Len(dTabs) = 4
  /\ \E group \in GroupsHolding(dOut.tabId) : group.original.id # dOut.tabId

(***************************************************************************)
(* SpecSaved: the saved tab groups of chrome.storage.local under           *)
(* saveTabGroup and deleteTabGroup calls, single or back to back as        *)
(* saveCurrentGroups issues them, while the clock advances or stands       *)
(* still.                                                                  *)
(***************************************************************************)
\* saved groups kept at most
MaxSaved == 3

\* the last value of Date.now()
MaxClock == 2

GroupNames == {"work", "news"}

\* tab ids of a group that is saved
SavedTabIds == {<<1>>, <<2, 3>>}

\* StorageManager.saveTabGroup(name, tabIds) when Date.now() is now: the
\* groups stored afterwards; tabs stands for the details of the tabs
saveTabGroup(groups, now, name, tabIds) ==
  LET groupId == ToDigits(now)
      group == [id |-> groupId, name |-> name, created |-> now, tabs |-> tabIds]
  IN Append(groups, group)

\* StorageManager.deleteTabGroup(groupId): the groups stored afterwards
deleteTabGroup(groups, groupId) ==
  SelectIdx(groups, [i \in DOMAIN groups |-> groups[i].id # groupId], 1)

SavedInit == vGroups = <<>> /\ vClock = 0 /\ vLast = NoResult

\* Date.now() gives a later value
ClockAdvances ==
  /\ vClock < MaxClock
  /\ vClock' = vClock + 1
  /\ UNCHANGED <<vGroups, vLast>>

\* one saveTabGroup call
SaveTabGroup ==
  /\ Len(vGroups) < MaxSaved
  /\ \E name \in GroupNames, tabIds \in SavedTabIds :
       /\ vGroups' = saveTabGroup(vGroups, vClock, name, tabIds)
       /\ vLast' = [kind |-> "saveTabGroup", id |-> ToDigits(vClock), before |-> vGroups]
  /\ UNCHANGED vClock

\* saveCurrentGroups of the popup on a window with two tab groups: two
\* saveTabGroup calls, each awaited; Date.now() of the second is that of
\* the first or a later one
SaveCurrentGroups ==
  /\ Len(vGroups) + 2 <= MaxSaved
  /\ \E later \in vClock..MaxClock, tabIds \in SavedTabIds :
       /\ vGroups' = saveTabGroup(saveTabGroup(vGroups, vClock, "work", tabIds),
                                  later, "news", tabIds)
       /\ vClock' = later
       /\ vLast' = [kind |-> "saveCurrentGroups", id |-> ToDigits(later), before |-> vGroups]

\* deleteTabGroup(id) for the id of a saved group
DeleteTabGroup ==
  /\ \E i \in DOMAIN vGroups :
       /\ vGroups' = deleteTabGroup(vGroups, vGroups[i].id)
       /\ vLast' = [kind |-> "deleteTabGroup", id |-> vGroups[i].id, before |-> vGroups]
  /\ UNCHANGED vClock

InitSaved == SavedInit /\ IdleBut("saved")
NextSaved ==
  (ClockAdvances \/ SaveTabGroup \/ SaveCurrentGroups \/ DeleteTabGroup) /\ UnchangedBut("saved")
SpecSaved == InitSaved /\ [][NextSaved]_vars

(***************************************************************************)
(* Claims checked under SpecSaved                                          *)
(***************************************************************************)
DistinctSavedIds == \A i, j \in DOMAIN vGroups : vGroups[i].id = vGroups[j].id => i = j

\* the last call deleted one saved group and left the others as they were
DeletedExactlyOne ==
  \E i \in DOMAIN vLast.before :
    vGroups = SelectIdx(vLast.before, [k \in DOMAIN vLast.before |-> k # i], 1)

\* C29: after any sequence of saveTabGroup and deleteTabGroup calls the
\* saved groups have pairwise distinct ids, and a deleteTabGroup(id) has
\* removed exactly one saved group and left every other one unchanged
C29_SavedIdsDistinct ==
  /\ DistinctSavedIds
  /\ vLast.kind = "deleteTabGroup" => DeletedExactlyOne

(***************************************************************************)
(* SpecSort: a window whose tabs have titles, some of them in tab groups   *)
(* (the tabs of a group next to each other, as the host keeps them), and   *)
(* one TabManager.sortTabsByTitle call on it.                              *)
(***************************************************************************)
MaxSortTabs == 3

\* titles of lower-case letters, and the missing title
SortTitles == { <<>>, <<"a">>, <<"a", "b">>, <<"b">> }

\* groupId of the tabs: chrome.tabGroups.TAB_GROUP_ID_NONE, or a group
SortGroupIds == {NoGroup, 1, 2}

\* titleA.localeCompare(titleB) for titles of lower-case letters: negative,
\* zero or positive
RECURSIVE localeCompare(_, _)
localeCompare(titleA, titleB) ==
  IF titleA = <<>> THEN (IF titleB = <<>> THEN 0 ELSE -1)
  ELSE IF titleB = <<>> THEN 1
  ELSE IF Head(titleA) # Head(titleB) THEN Code(Head(titleA)) - Code(Head(titleB))
  ELSE localeCompare(Tail(titleA), Tail(titleB))

\* groupTabs.sort by title; the sort is stable
RECURSIVE InsertByTitle(_, _)
InsertByTitle(sorted, tab) ==
  IF sorted = <<>> THEN <<tab>>
  ELSE IF localeCompare(tab.title, Head(sorted).title) < 0 THEN <<tab>> \o sorted
  ELSE <<Head(sorted)>> \o InsertByTitle(Tail(sorted), tab)

RECURSIVE SortByTitle(_, _, _)
SortByTitle(tabs, i, sorted) ==
  IF i > Len(tabs) THEN sorted ELSE SortByTitle(tabs, i + 1, InsertByTitle(sorted, tabs[i]))

\* tabsByGroup.get(undefined): the entry set first; a tab the host lists
\* has a groupId, TAB_GROUP_ID_NONE when it is in no group, so no tab is
\* pushed to it
UndefinedBucket(tabs) == <<>>

\* Array.from(tabsByGroup.keys()).filter(id => id !== undefined): the
\* groupId values of the tabs in the order they first appear
RECURSIVE KeysOf(_, _, _)
KeysOf(tabs, i, keys) ==
  IF i > Len(tabs) THEN keys
  ELSE KeysOf(tabs, i + 1,
              IF tabs[i].groupId \in Range(keys) THEN keys ELSE Append(keys, tabs[i].groupId))

\* tabsByGroup.get(groupId) after the sort
SortedBucket(tabs, groupId) ==
  SortByTitle(SelectIdx(tabs, [i \in DOMAIN tabs |-> tabs[i].groupId = groupId], 1), 1, <<>>)

\* the tabs in the order they are moved
RECURSIVE BucketsFrom(_, _, _)
BucketsFrom(tabs, groupIds, k) ==
  IF k > Len(groupIds) THEN <<>>
  ELSE SortedBucket(tabs, groupIds[k]) \o BucketsFrom(tabs, groupIds, k + 1)

MoveOrder(tabs) == UndefinedBucket(tabs) \o BucketsFrom(tabs, KeysOf(tabs, 1, <<>>), 1)

\* chrome.tabs.move(tabId, { index }): the tab leaves its place and is put
\* at the index, counted from 0; it stays in its group
TabsMove(tabs, tabId, index) ==
  LET tab == GetTab(tabs, tabId)
      others == SelectIdx(tabs, [i \in DOMAIN tabs |-> tabs[i].id # tabId], 1)
      at == IF index > Len(others) THEN Len(others) ELSE index
  IN Take(others, at) \o <<tab>> \o Drop(others, at)

\* the moveTab loop from order[k] on, with currentIndex; moved lists the
\* ids of movedTabs
RECURSIVE MoveTabsFrom(_, _, _, _, _)
MoveTabsFrom(tabs, order, k, currentIndex, moved) ==
  IF k > Len(order) THEN [tabs |-> tabs, moved |-> moved]
  ELSE IF ~HasId(order[k]) THEN MoveTabsFrom(tabs, order, k + 1, currentIndex, moved)
  ELSE MoveTabsFrom(TabsMove(tabs, order[k].id, currentIndex), order, k + 1,
                    currentIndex + 1, Append(moved, order[k].id))

\* TabManager.sortTabsByTitle(windowId)
sortTabsByTitle(tabs) == MoveTabsFrom(tabs, MoveOrder(tabs), 1, 0, <<>>)

\* the tabs of a group are next to each other
GroupsContiguous(groupIds) ==
  \A i, j, k \in DOMAIN groupIds :
    (i < j /\ j < k /\ groupIds[i] = groupIds[k] /\ groupIds[i] # NoGroup)
      => groupIds[j] = groupIds[i]

SortInit ==
  /\ \E n \in 1..MaxSortTabs :
       \E titles \in [1..n -> SortTitles], groupIds \in [1..n -> SortGroupIds] :
         /\ GroupsContiguous(groupIds)
         /\ gTabs = [k \in 1..n |-> [id |-> k, title |-> titles[k], groupId |-> groupIds[k]]]
         /\ gGroups = {[id |-> g, title |-> <<>>, color |-> "grey"] :
                         g \in Range(groupIds) \ {NoGroup}}
  /\ gNextGroupId = Cardinality(gGroups) + 1
  /\ gLast = NoResult

\* the 'sort-tabs' command, or the sort button of the popup, on the window
SortTabsByTitle ==
  /\ gLast = NoResult
  /\ LET sorted == sortTabsByTitle(gTabs) IN
     /\ gTabs' = sorted.tabs
     /\ gLast' = [kind |-> "sortTabsByTitle", before |-> gTabs, moved |-> sorted.moved]
  /\ UNCHANGED <<gGroups, gNextGroupId>>

InitSort == SortInit /\ IdleBut("group")
NextSort == SortTabsByTitle /\ UnchangedBut("group")
SpecSort == InitSort /\ [][NextSort]_vars

(***************************************************************************)
(* Claims checked under SpecSort                                           *)
(***************************************************************************)
Sorted == gLast.kind = "sortTabsByTitle"

UngroupedCount == Cardinality({i \in DOMAIN gTabs : gTabs[i].groupId = NoGroup})

\* the tabs at positions i < j of one group, or of no group, are in title
\* order
TitleOrderWithinGroups ==
  \A i, j \in DOMAIN gTabs :
    (i < j /\ gTabs[i].groupId = gTabs[j].groupId)
      => localeCompare(gTabs[i].title, gTabs[j].title) <= 0

MembershipKept ==
  \A i \in DOMAIN gLast.before :
    GetTab(gTabs, gLast.before[i].id).groupId = gLast.before[i].groupId

MovedOnce ==
  /\ NoRepeats(gLast.moved)
  /\ Range(gLast.moved) = Range(Ids(gLast.before))

\* C30: after sortTabsByTitle the ungrouped tabs are first, at indices 0 to
\* u-1, then the tabs of each group next to each other; the ungrouped
\* tabs and the tabs of each group are in non-decreasing title order;
\* every tab was moved exactly once and is in the group it was in
C30_UngroupedFirstThenGroups ==
  Sorted =>
    /\ \A i \in 1..UngroupedCount : gTabs[i].groupId = NoGroup
    /\ GroupsContiguous([i \in DOMAIN gTabs |-> gTabs[i].groupId])
    /\ TitleOrderWithinGroups
    /\ MovedOnce
    /\ MembershipKept
====
